---- MODULE Spec2Model ----
(***************************************************************************)
(* Model of the finanzas-personales backend: the FastAPI routers over the  *)
(* SQLAlchemy CRUD layer, stored in PostgreSQL.                            *)
(*                                                                         *)
(* A table is a function from a server-assigned id to a row.  Money is     *)
(* counted in cents (the Numeric(15, 2) columns).  A router action models  *)
(* a whole request: the handler, the CRUD calls it makes, the commits and  *)
(* the constraint checks of the database.  The variable response holds the *)
(* request just served (operation and caller) with its HTTP status and the *)
(* rows of its body.                                                       *)
(***************************************************************************)
EXTENDS Integers, Sequences, FiniteSets, TLC

\* ------------------------------------------------------------------ bounds
MaxProducts == 2
MaxTransactions == 2
MaxCredits == 2
MaxInstallments == 2
MaxCurrencies == 4
MaxCreditProducts == 1
MaxSeedings == 2
MaxCategories == 1
MaxRows == 1
MaxSkip == 2
MaxLimit == 2
MaxServices == 2
MaxNotifications == 2
MaxDays == 1
MaxBatch == 2
MaxTicks == 5
MaxLogins == 2
MaxSubmissions == 1
MaxFrameRows == 2
MaxDependents == 2

\* ------------------------------------------------------------- vocabulary
Users == {1, 2}
Workers == {1, 2}
None == -1
TransactionType == {"INCOME", "EXPENSE"}
PENDING == "PENDING"
PAID == "PAID"
SERVICE_DUE == "SERVICE_DUE"

\* the day the backend host shows when the model starts
FirstDay == [y |-> 2024, m |-> 1, d |-> 30]

\* no session file in the session directory
NoFile == [kind |-> "none"]

\* a session file whose content does not parse or lacks a key
Unreadable == [kind |-> "unreadable"]

\* minutes a saved or extended session lasts
SessionMinutes == 30

\* minutes between two readings of the frontend clock
TickMinutes == 10

\* the key current_page is not in the session state
NoPage == "none"

\* the pages of the menu
Pages == {"dashboard", "products", "transactions", "credits", "services", "config",
          "reports"}

\* the session id the SessionPersistence of this process was built with, and
\* the session ids of other processes that have written into the session
\* directory
OwnSession == "a"

OtherSessions == {"b", "c"}

VARIABLES institutions, products, transactions, credits, installments,
          categories, currencies, services, notifications, serial, seedings,
          response, workers, today,
          session_state, session_file, now, authorization, accepted, issued, view,
          outcome,
          current_page, page_file, pagination, session_dir, threads

\* the store and the requests of the backend
backend == <<institutions, products, transactions, credits, installments,
             categories, currencies, services, notifications, serial, seedings,
             response, workers>>

\* the browser session, the session file, the API client and the clock of
\* the frontend process, and the tokens the backend accepts
frontend == <<session_state, session_file, now, authorization, accepted, issued, view,
              outcome>>

\* the page of the browser session, the page-state file, and the pagination
\* keys of the session state
navigation == <<current_page, page_file, pagination>>

\* the session files of other processes in the session directory, and the
\* threads of this process that are inside a write or a sweep of it
directory == <<session_dir, threads>>

vars == <<backend, today, frontend, navigation, directory>>

Tables == {"institutions", "products", "transactions", "credits", "installments",
           "categories", "currencies", "services", "notifications"}

\* ---------------------------------------------------------------- helpers
Insert(table, id, row) == [i \in DOMAIN table \cup {id} |-> IF i = id THEN row ELSE table[i]]

Remove(table, id) == [i \in DOMAIN table \ {id} |-> table[i]]

NextId(name) == serial[name] + 1

Bump(name, n) == [serial EXCEPT ![name] = @ + n]

Rows(name, table, ids) == {[table |-> name, id |-> i, data |-> table[i]] : i \in ids}

RowSeq(name, table, ids) ==
    [k \in DOMAIN ids |-> [table |-> name, id |-> ids[k], data |-> table[ids[k]]]]

Reply(op, user, target, status, body) ==
    response' = [op |-> op, user |-> user, target |-> target, status |-> status,
                 body |-> body]

Min(a, b) == IF a < b THEN a ELSE b

Max(a, b) == IF a < b THEN b ELSE a

\* ------------------------------------------------------------------- dates
\* datetime.date as year, month, day
IsLeap(y) == (y % 4 = 0 /\ y % 100 # 0) \/ y % 400 = 0

DaysInMonth(y, m) ==
    IF m = 2 THEN (IF IsLeap(y) THEN 29 ELSE 28)
    ELSE IF m \in {4, 6, 9, 11} THEN 30 ELSE 31

MonthIndex(date) == date.y * 12 + (date.m - 1)

\* date + relativedelta(months=k): the day is clipped to the target month
AddMonths(date, k) ==
    LET idx == MonthIndex(date) + k
        y == idx \div 12
        m == (idx % 12) + 1
    IN  [y |-> y, m |-> m, d |-> Min(date.d, DaysInMonth(y, m))]

\* date.replace(day=...) raises ValueError for a day the month does not have
ReplaceDayRaises(date, day) == day < 1 \/ day > DaysInMonth(date.y, date.m)

ReplaceDay(date, day) == [date EXCEPT !.d = day]

NextDay(date) ==
    IF date.d < DaysInMonth(date.y, date.m) THEN [date EXCEPT !.d = @ + 1]
    ELSE IF date.m < 12 THEN [y |-> date.y, m |-> date.m + 1, d |-> 1]
    ELSE [y |-> date.y + 1, m |-> 1, d |-> 1]

PrevDay(date) ==
    IF date.d > 1 THEN [date EXCEPT !.d = @ - 1]
    ELSE IF date.m > 1
         THEN [y |-> date.y, m |-> date.m - 1, d |-> DaysInMonth(date.y, date.m - 1)]
    ELSE [y |-> date.y - 1, m |-> 12, d |-> 31]

\* date + timedelta(days=n), n of either sign
RECURSIVE AddDays(_, _)
AddDays(date, n) ==
    IF n = 0 THEN date
    ELSE IF n > 0 THEN AddDays(NextDay(date), n - 1)
    ELSE AddDays(PrevDay(date), n + 1)

\* date.toordinal(): the days from 0001-01-01, which is day 1
RECURSIVE days_before_month(_, _)
days_before_month(y, m) ==
    IF m = 1 THEN 0 ELSE days_before_month(y, m - 1) + DaysInMonth(y, m - 1)

toordinal(date) ==
    LET y == date.y - 1
    IN  y * 365 + (y \div 4) - (y \div 100) + (y \div 400)
          + days_before_month(date.y, date.m) + date.d

DateBefore(a, b) ==
    \/ a.y < b.y
    \/ a.y = b.y /\ a.m < b.m
    \/ a.y = b.y /\ a.m = b.m /\ a.d < b.d

\* ------------------------------------------------ CRUD layer: query filters
get_institution(institution_id, user_id) ==
    {i \in DOMAIN institutions : i = institution_id /\ institutions[i].user_id = user_id}

get_product(product_id, user_id) ==
    {i \in DOMAIN products : i = product_id /\ products[i].user_id = user_id}

get_category(category_id, user_id) ==
    {i \in DOMAIN categories : i = category_id /\ categories[i].user_id = user_id}

\* mutation: the lookup forgets the owner filter
get_service_any_owner(service_id, user_id) ==
    {i \in DOMAIN services : i = service_id}

get_service(service_id, user_id) ==
    {i \in DOMAIN services : i = service_id /\ services[i].user_id = user_id}

\* ORDER BY next_due_date: ascending, rows of one date in any order
order_by_next_due_date(ids) ==
    {o \in [1..Cardinality(ids) -> ids] :
        /\ \A i, j \in DOMAIN o : i # j => o[i] # o[j]
        /\ \A i, j \in DOMAIN o :
              i < j => ~DateBefore(services[o[j]].next_due_date,
                                   services[o[i]].next_due_date)}

get_upcoming_services_any_status(user_id, days_ahead) ==
    LET end_date == AddDays(today, days_ahead)
    IN  order_by_next_due_date(
            {i \in DOMAIN services :
                /\ services[i].user_id = user_id
                /\ ~DateBefore(end_date, services[i].next_due_date)
                /\ ~DateBefore(services[i].next_due_date, today)})

get_upcoming_services(user_id, days_ahead) ==
    LET end_date == AddDays(today, days_ahead)
    IN  order_by_next_due_date(
            {i \in DOMAIN services :
                /\ services[i].user_id = user_id
                /\ services[i].is_active = TRUE
                /\ ~DateBefore(end_date, services[i].next_due_date)
                /\ ~DateBefore(services[i].next_due_date, today)})

unread_notifications_any_user(user_id) ==
    {i \in DOMAIN notifications : notifications[i].is_read = FALSE}

\* the rows of user_id with is_read == False
unread_notifications(user_id) ==
    {i \in DOMAIN notifications :
        notifications[i].user_id = user_id /\ notifications[i].is_read = FALSE}

get_unread_notifications_count(user_id) == Cardinality(unread_notifications(user_id))

get_notification(notification_id, user_id) ==
    {i \in DOMAIN notifications : i = notification_id /\ notifications[i].user_id = user_id}

\* the rows of the filter, before ordering
transactions_of_product(product_id) ==
    {i \in DOMAIN transactions : transactions[i].product_id = product_id}

\* ORDER BY transaction_date DESC names no second key: rows of one date come
\* in whatever order the executor produces, so every ordering of the ids by
\* non-increasing date is a possible result of one execution of the query
order_by_transaction_date_desc(ids) ==
    {o \in [1..Cardinality(ids) -> ids] :
        /\ \A i, j \in DOMAIN o : i # j => o[i] # o[j]
        /\ \A i, j \in DOMAIN o :
              i < j => ~DateBefore(transactions[o[i]].transaction_date,
                                   transactions[o[j]].transaction_date)}

offset_limit(rows, skip, limit) == SubSeq(rows, skip + 1, Min(Len(rows), skip + limit))

get_transactions(product_id, skip, limit) ==
    {offset_limit(o, skip, limit) :
        o \in order_by_transaction_date_desc(transactions_of_product(product_id))}

get_credits(product_id) ==
    {i \in DOMAIN credits : credits[i].product_id = product_id}

get_installments(credit_id) ==
    {i \in DOMAIN installments : installments[i].credit_id = credit_id}

\* ------------------------------------------ CRUD layer: balance of a product
\* mutation: an expense is added like an income
Adjust_untyped(balance, amount, is_income) == balance + amount

Adjust(balance, amount, is_income) ==
    IF is_income THEN balance + amount ELSE balance - amount

\* mutation: the transaction type is ignored, every amount is added
update_product_balance_untyped(prods, product_id, amount, is_income) ==
    IF product_id \in DOMAIN prods
    THEN [prods EXCEPT ![product_id].balance = @ + amount]
    ELSE prods

update_product_balance(prods, product_id, amount, is_income) ==
    IF product_id \in DOMAIN prods
    THEN [prods EXCEPT ![product_id].balance = Adjust(@, amount, is_income)]
    ELSE prods

\* -------------------------------------------- foreign keys kept by the store
\* rows whose NOT NULL product_id the ORM sets to NULL when the product goes
ProductDependents(product_id) ==
    \/ transactions_of_product(product_id) # {}
    \/ get_credits(product_id) # {}

\* the services of a product: their product_id is nullable, and the ORM
\* sets it to NULL when the product goes
Orphaned(servs, product_id) ==
    [i \in DOMAIN servs |->
        IF servs[i].product_id = product_id
        THEN [servs[i] EXCEPT !.product_id = None]
        ELSE servs[i]]

ProductReferrers(product_id) ==
    {i \in DOMAIN notifications : notifications[i].related_product_id = product_id}

ServiceReferrers(service_id) ==
    {i \in DOMAIN notifications : notifications[i].related_service_id = service_id}

InstitutionDependents(institution_id) ==
    {i \in DOMAIN products : products[i].institution_id = institution_id}

\* ------------------------------------- CRUD layer: default categories
default_income_categories ==
    << <<"Sueldo", "money bag">>, <<"Freelance", "laptop">>, <<"Inversiones", "chart">>,
       <<"Venta", "cart">>, <<"Regalo", "gift">>, <<"Bono", "party">>,
       <<"Otros", "dollar">> >>

default_expense_categories ==
    << <<"Comida", "plate">>, <<"Transporte", "car">>, <<"Servicios", "bulb">>,
       <<"Entretenimiento", "clapper">>, <<"Salud", "hospital">>,
       <<"Educacion", "books">>, <<"Ropa", "shirt">>, <<"Casa", "house">>,
       <<"Tecnologia", "phone">>, <<"Otros", "money wings">> >>

seed_rows(cats, first_id, user_id) ==
    LET ni == Len(default_income_categories)
        ne == Len(default_expense_categories)
    IN  [id \in DOMAIN cats \cup (first_id..(first_id + ni + ne - 1)) |->
            IF id \in DOMAIN cats THEN cats[id]
            ELSE IF id - first_id < ni
            THEN [user_id |-> user_id,
                  name |-> default_income_categories[id - first_id + 1][1],
                  type |-> "INCOME",
                  emoji |-> default_income_categories[id - first_id + 1][2]]
            ELSE [user_id |-> user_id,
                  name |-> default_expense_categories[id - first_id - ni + 1][1],
                  type |-> "EXPENSE",
                  emoji |-> default_expense_categories[id - first_id - ni + 1][2]]]

\* mutation: a user who already has categories is not seeded again
create_default_categories_once(cats, first_id, user_id) ==
    IF \E i \in DOMAIN cats : cats[i].user_id = user_id
    THEN cats
    ELSE seed_rows(cats, first_id, user_id)

create_default_categories(cats, first_id, user_id) == seed_rows(cats, first_id, user_id)

\* ------------------------------------------------------ router: institutions
create_institution(u, inst) ==
    /\ serial["institutions"] < Cardinality(Users) + MaxRows
    /\ institutions' = Insert(institutions, NextId("institutions"),
                              [user_id |-> u, name |-> inst.name])
    /\ serial' = Bump("institutions", 1)
    /\ Reply("create_institution", u, 0, 200,
             Rows("institutions", institutions', {NextId("institutions")}))
    /\ UNCHANGED <<today, frontend, navigation, directory>>
    /\ UNCHANGED <<products, transactions, credits, installments, categories,
                   currencies, services, notifications, seedings, workers>>

read_institution(u, institution_id) ==
    /\ LET found == get_institution(institution_id, u)
       IN  IF found = {}
           THEN Reply("read_institution", u, institution_id, 404, {})
           ELSE Reply("read_institution", u, institution_id, 200, Rows("institutions", institutions, found))
    /\ UNCHANGED <<today, frontend, navigation, directory>>
    /\ UNCHANGED <<institutions, products, transactions, credits, installments,
                   categories, currencies, services, notifications, serial, seedings, workers>>

delete_institution(u, institution_id) ==
    /\ LET found == get_institution(institution_id, u)
       IN  IF found = {}
           THEN /\ Reply("delete_institution", u, institution_id, 404, {})
                /\ UNCHANGED institutions
           ELSE IF InstitutionDependents(institution_id) # {}
           THEN /\ Reply("delete_institution", u, institution_id, 500, {})
                /\ UNCHANGED institutions
           ELSE /\ institutions' = Remove(institutions, institution_id)
                /\ Reply("delete_institution", u, institution_id, 200, {})
    /\ UNCHANGED <<today, frontend, navigation, directory>>
    /\ UNCHANGED <<products, transactions, credits, installments, categories,
                   currencies, services, notifications, serial, seedings, workers>>

\* ---------------------------------------------------------- router: products
create_product(u, p) ==
    /\ serial["products"] < MaxProducts
    /\ IF p.institution_id \in DOMAIN institutions /\ p.currency_id \in DOMAIN currencies
       THEN /\ products' = Insert(products, NextId("products"),
                                  [user_id |-> u,
                                   institution_id |-> p.institution_id,
                                   currency_id |-> p.currency_id,
                                   balance |-> 0,
                                   payment_due_day |-> p.payment_due_day])
            /\ serial' = Bump("products", 1)
            /\ Reply("create_product", u, 0, 200,
                     Rows("products", products', {NextId("products")}))
       ELSE /\ UNCHANGED <<products, serial>>
            /\ Reply("create_product", u, 0, 400, {})
    /\ UNCHANGED <<today, frontend, navigation, directory>>
    /\ UNCHANGED <<institutions, transactions, credits, installments, categories,
                   currencies, services, notifications, seedings, workers>>

read_product(u, product_id) ==
    /\ LET found == get_product(product_id, u)
       IN  IF found = {}
           THEN Reply("read_product", u, product_id, 404, {})
           ELSE Reply("read_product", u, product_id, 200, Rows("products", products, found))
    /\ UNCHANGED <<today, frontend, navigation, directory>>
    /\ UNCHANGED <<institutions, products, transactions, credits, installments,
                   categories, currencies, services, notifications, serial, seedings, workers>>

delete_product(u, product_id) ==
    /\ LET found == get_product(product_id, u)
       IN  IF found = {}
           THEN /\ Reply("delete_product", u, product_id, 404, {})
                /\ UNCHANGED <<products, services>>
           ELSE IF ProductDependents(product_id)
           THEN /\ Reply("delete_product", u, product_id, 500, {})
                /\ UNCHANGED <<products, services>>
           ELSE IF ProductReferrers(product_id) # {}
           THEN /\ Reply("delete_product", u, product_id, 400, {})
                /\ UNCHANGED <<products, services>>
           ELSE /\ products' = Remove(products, product_id)
                /\ services' = Orphaned(services, product_id)
                /\ Reply("delete_product", u, product_id, 200, {})
    /\ UNCHANGED <<today, frontend, navigation, directory>>
    /\ UNCHANGED <<institutions, transactions, credits, installments, categories,
                   currencies, notifications, serial, seedings, workers>>

\* -------------------------------------------------------- router: categories
create_category(u, c) ==
    /\ serial["categories"]
          - (Len(default_income_categories) + Len(default_expense_categories)) * seedings
          < MaxCategories
    /\ categories' = Insert(categories, NextId("categories"),
                            [user_id |-> u, name |-> c.name, type |-> c.type,
                             emoji |-> c.emoji])
    /\ serial' = Bump("categories", 1)
    /\ Reply("create_category", u, 0, 200,
             Rows("categories", categories', {NextId("categories")}))
    /\ UNCHANGED <<today, frontend, navigation, directory>>
    /\ UNCHANGED <<institutions, products, transactions, credits, installments,
                   currencies, services, notifications, seedings, workers>>

read_category(u, category_id) ==
    /\ LET found == get_category(category_id, u)
       IN  IF found = {}
           THEN Reply("read_category", u, category_id, 404, {})
           ELSE Reply("read_category", u, category_id, 200, Rows("categories", categories, found))
    /\ UNCHANGED <<today, frontend, navigation, directory>>
    /\ UNCHANGED <<institutions, products, transactions, credits, installments,
                   categories, currencies, services, notifications, serial, seedings, workers>>

delete_category(u, category_id) ==
    /\ LET found == get_category(category_id, u)
       IN  IF found = {}
           THEN /\ Reply("delete_category", u, category_id, 404, {})
                /\ UNCHANGED categories
           ELSE /\ categories' = Remove(categories, category_id)
                /\ Reply("delete_category", u, category_id, 200, {})
    /\ UNCHANGED <<today, frontend, navigation, directory>>
    /\ UNCHANGED <<institutions, products, transactions, credits, installments,
                   currencies, services, notifications, serial, seedings, workers>>

\* ---------------------------------------------------------- router: services
ServiceRefsHold(s) ==
    /\ s.currency_id \in DOMAIN currencies
    /\ s.product_id = None \/ s.product_id \in DOMAIN products

create_service(u, s) ==
    /\ serial["services"] < MaxServices
    /\ IF ServiceRefsHold(s)
       THEN /\ services' = Insert(services, NextId("services"),
                                  [user_id |-> u, product_id |-> s.product_id,
                                   name |-> s.name, amount |-> s.amount,
                                   currency_id |-> s.currency_id,
                                   is_active |-> s.is_active,
                                   next_due_date |-> s.next_due_date])
            /\ serial' = Bump("services", 1)
            /\ Reply("create_service", u, 0, 200,
                     Rows("services", services', {NextId("services")}))
       ELSE /\ UNCHANGED <<services, serial>>
            /\ Reply("create_service", u, 0, 400, {})
    /\ UNCHANGED <<today, frontend, navigation, directory>>
    /\ UNCHANGED <<institutions, products, transactions, credits, installments,
                   categories, currencies, notifications, seedings, workers>>

\* days_ahead as the route declares it when the query string has none
DefaultDaysAhead == 7

read_upcoming_services(u, days_ahead) ==
    /\ \E found \in get_upcoming_services(u, days_ahead) :
          response' = [op |-> "read_upcoming_services", user |-> u, target |-> 0,
                       status |-> 200, days_ahead |-> days_ahead,
                       body |-> RowSeq("services", services, found)]
    /\ UNCHANGED <<today, frontend, navigation, directory>>
    /\ UNCHANGED <<institutions, products, transactions, credits, installments,
                   categories, currencies, services, notifications, serial, seedings,
                   workers>>

\* the calendar day of the backend host changes
midnight ==
    /\ DateBefore(today, AddDays(FirstDay, MaxDays))
    /\ today' = NextDay(today)
    /\ UNCHANGED <<backend, frontend, navigation, directory>>

read_service(u, service_id) ==
    /\ LET found == get_service(service_id, u)
       IN  IF found = {}
           THEN Reply("read_service", u, service_id, 404, {})
           ELSE Reply("read_service", u, service_id, 200, Rows("services", services, found))
    /\ UNCHANGED <<today, frontend, navigation, directory>>
    /\ UNCHANGED <<institutions, products, transactions, credits, installments,
                   categories, currencies, services, notifications, serial, seedings, workers>>

update_service(u, service_id, s) ==
    /\ LET found == get_service(service_id, u)
       IN  IF found = {}
           THEN /\ Reply("update_service", u, service_id, 404, {})
                /\ UNCHANGED services
           ELSE IF ~ServiceRefsHold(s)
           THEN /\ Reply("update_service", u, service_id, 400, {})
                /\ UNCHANGED services
           ELSE /\ services' = [services EXCEPT ![service_id] =
                                   [user_id |-> @.user_id, product_id |-> s.product_id,
                                    name |-> s.name, amount |-> s.amount,
                                    currency_id |-> s.currency_id,
                                    is_active |-> s.is_active,
                                    next_due_date |-> s.next_due_date]]
                /\ Reply("update_service", u, service_id, 200, Rows("services", services', found))
    /\ UNCHANGED <<today, frontend, navigation, directory>>
    /\ UNCHANGED <<institutions, products, transactions, credits, installments,
                   categories, currencies, notifications, serial, seedings, workers>>

delete_service(u, service_id) ==
    /\ LET found == get_service(service_id, u)
       IN  IF found = {}
           THEN /\ Reply("delete_service", u, service_id, 404, {})
                /\ UNCHANGED services
           ELSE IF ServiceReferrers(service_id) # {}
           THEN /\ Reply("delete_service", u, service_id, 400, {})
                /\ UNCHANGED services
           ELSE /\ services' = Remove(services, service_id)
                /\ Reply("delete_service", u, service_id, 200, {})
    /\ UNCHANGED <<today, frontend, navigation, directory>>
    /\ UNCHANGED <<institutions, products, transactions, credits, installments,
                   categories, currencies, notifications, serial, seedings, workers>>

\* ----------------------------------------------------- router: notifications
create_notification(u, n) ==
    /\ serial["notifications"] < MaxNotifications
    /\ IF /\ n.related_service_id = None \/ n.related_service_id \in DOMAIN services
          /\ n.related_product_id = None \/ n.related_product_id \in DOMAIN products
       THEN /\ notifications' = Insert(notifications, NextId("notifications"),
                                       [user_id |-> u, type |-> n.type, title |-> n.title,
                                        message |-> n.message, is_read |-> n.is_read,
                                        related_service_id |-> n.related_service_id,
                                        related_product_id |-> n.related_product_id])
            /\ serial' = Bump("notifications", 1)
            /\ Reply("create_notification", u, 0, 200,
                     Rows("notifications", notifications', {NextId("notifications")}))
       ELSE /\ UNCHANGED <<notifications, serial>>
            /\ Reply("create_notification", u, 0, 400, {})
    /\ UNCHANGED <<today, frontend, navigation, directory>>
    /\ UNCHANGED <<institutions, products, transactions, credits, installments,
                   categories, currencies, services, seedings, workers>>

mark_notification_read(u, notification_id) ==
    /\ LET found == get_notification(notification_id, u)
       IN  IF found = {}
           THEN /\ Reply("mark_notification_read", u, notification_id, 404, {})
                /\ UNCHANGED notifications
           ELSE /\ notifications' = [notifications EXCEPT ![notification_id].is_read = TRUE]
                /\ Reply("mark_notification_read", u, notification_id, 200,
                         Rows("notifications", notifications', found))
    /\ UNCHANGED <<today, frontend, navigation, directory>>
    /\ UNCHANGED <<institutions, products, transactions, credits, installments,
                   categories, currencies, services, serial, seedings, workers>>

\* every unread row of the user is set read in one commit; the reply carries
\* the number of rows the query had found
mark_all_notifications_read(u) ==
    /\ LET found == unread_notifications(u)
       IN  /\ notifications' = [i \in DOMAIN notifications |->
                                  IF i \in found
                                  THEN [notifications[i] EXCEPT !.is_read = TRUE]
                                  ELSE notifications[i]]
           /\ Reply("mark_all_notifications_read", u, 0, 200, Cardinality(found))
    /\ UNCHANGED <<today, frontend, navigation, directory>>
    /\ UNCHANGED <<institutions, products, transactions, credits, installments,
                   categories, currencies, services, serial, seedings, workers>>

get_unread_count(u) ==
    /\ Reply("get_unread_count", u, 0, 200, get_unread_notifications_count(u))
    /\ UNCHANGED <<today, frontend, navigation, directory>>
    /\ UNCHANGED <<institutions, products, transactions, credits, installments,
                   categories, currencies, services, notifications, serial, seedings,
                   workers>>

\* the service is looked up by its id alone; the notification built from it
\* is stored for the caller
service_due_notification(service_id) ==
    LET service == services[service_id]
    IN  [type |-> SERVICE_DUE,
         title |-> <<"Vencimiento: ", service.name>>,
         message |-> <<"Tu servicio ", service.name, " vence el ", service.next_due_date,
                       ". Monto: ", currencies[service.currency_id].symbol,
                       service.amount>>,
         is_read |-> FALSE,
         related_service_id |-> service_id,
         related_product_id |-> service.product_id]

create_service_due_notification(u, service_id) ==
    /\ serial["notifications"] < MaxNotifications
    /\ IF service_id \in DOMAIN services
       THEN LET n == service_due_notification(service_id)
            IN  /\ notifications' = Insert(notifications, NextId("notifications"),
                                           [user_id |-> u, type |-> n.type,
                                            title |-> n.title, message |-> n.message,
                                            is_read |-> n.is_read,
                                            related_service_id |-> n.related_service_id,
                                            related_product_id |-> n.related_product_id])
                /\ serial' = Bump("notifications", 1)
                /\ Reply("create_service_due_notification", u, service_id, 200,
                         Rows("notifications", notifications', {NextId("notifications")}))
       ELSE /\ UNCHANGED <<notifications, serial>>
            /\ Reply("create_service_due_notification", u, service_id, 404, {})
    /\ UNCHANGED <<today, frontend, navigation, directory>>
    /\ UNCHANGED <<institutions, products, transactions, credits, installments,
                   categories, currencies, services, seedings, workers>>

delete_notification(u, notification_id) ==
    /\ LET found == get_notification(notification_id, u)
       IN  IF found = {}
           THEN /\ Reply("delete_notification", u, notification_id, 404, {})
                /\ UNCHANGED notifications
           ELSE /\ notifications' = Remove(notifications, notification_id)
                /\ Reply("delete_notification", u, notification_id, 200, {})
    /\ UNCHANGED <<today, frontend, navigation, directory>>
    /\ UNCHANGED <<institutions, products, transactions, credits, installments,
                   categories, currencies, services, serial, seedings, workers>>

\* ------------------------------------------------------ router: transactions
create_transaction(u, t) ==
    /\ serial["transactions"] < MaxTransactions
    /\ IF t.product_id \in DOMAIN products
       THEN /\ transactions' = Insert(transactions, NextId("transactions"), t)
            /\ serial' = Bump("transactions", 1)
            /\ products' = update_product_balance(products, t.product_id, t.amount,
                                                  t.type = "INCOME")
            /\ Reply("create_transaction", u, t.product_id, 200,
                     Rows("transactions", transactions', {NextId("transactions")}))
       ELSE /\ UNCHANGED <<transactions, serial, products>>
            /\ Reply("create_transaction", u, t.product_id, 400, {})
    /\ UNCHANGED <<today, frontend, navigation, directory>>
    /\ UNCHANGED <<institutions, credits, installments, categories, currencies,
                   services, notifications, seedings, workers>>

\* skip and limit as the route declares them when the query string has none
DefaultSkip == 0

DefaultLimit == 100

\* the body is the JSON list in the order the query returned it
read_transactions(u, product_id, skip, limit) ==
    /\ \E page \in get_transactions(product_id, skip, limit) :
          response' = [op |-> "read_transactions", user |-> u, target |-> product_id,
                       status |-> 200, skip |-> skip, limit |-> limit,
                       body |-> RowSeq("transactions", transactions, page)]
    /\ UNCHANGED <<today, frontend, navigation, directory>>
    /\ UNCHANGED <<institutions, products, transactions, credits, installments,
                   categories, currencies, services, notifications, serial, seedings,
                   workers>>

\* ------------------------------------------------- optimizations: bulk writes
bulk_valid_product_ids_any_user(product_ids, user_id) ==
    {i \in DOMAIN products : i \in product_ids}

\* the ids among product_ids of products owned by user_id
bulk_valid_product_ids(product_ids, user_id) ==
    {i \in DOMAIN products : i \in product_ids /\ products[i].user_id = user_id}

add_all(table, first_id, rows) ==
    [i \in DOMAIN table \cup (first_id..(first_id + Len(rows) - 1)) |->
        IF i \in DOMAIN table THEN table[i] ELSE rows[i - first_id + 1]]

\* the loop over the inserted transactions: each adds to or takes from the
\* balance of its product as the loop has left it so far
RECURSIVE bulk_update_balances(_, _)
bulk_update_balances(prods, rows) ==
    IF rows = <<>> THEN prods
    ELSE LET transaction == Head(rows)
             product_id == transaction.product_id
             balance == IF transaction.type = "INCOME"
                        THEN prods[product_id].balance + transaction.amount
                        ELSE prods[product_id].balance - transaction.amount
         IN  bulk_update_balances(
                 IF product_id \in DOMAIN prods
                 THEN [prods EXCEPT ![product_id].balance = balance]
                 ELSE prods,
                 Tail(rows))

bulk_create_transactions(u, transactions_data) ==
    /\ LET product_ids == {transactions_data[k].product_id : k \in DOMAIN transactions_data}
           valid_product_ids == bulk_valid_product_ids(product_ids, u)
           valid_transactions ==
               SelectSeq(transactions_data, LAMBDA data : data.product_id \in valid_product_ids)
           first_id == NextId("transactions")
       IN  IF valid_transactions = <<>>
           THEN /\ UNCHANGED <<transactions, serial, products>>
                /\ response' = [op |-> "bulk_create_transactions", user |-> u, target |-> 0,
                                status |-> 200, data |-> transactions_data, body |-> <<>>]
           ELSE /\ serial["transactions"] + Len(valid_transactions) <= MaxTransactions
                /\ transactions' = add_all(transactions, first_id, valid_transactions)
                /\ serial' = Bump("transactions", Len(valid_transactions))
                /\ products' = bulk_update_balances(products, valid_transactions)
                /\ response' = [op |-> "bulk_create_transactions", user |-> u, target |-> 0,
                                status |-> 200, data |-> transactions_data,
                                body |-> RowSeq("transactions", transactions',
                                                [k \in DOMAIN valid_transactions |->
                                                    first_id + k - 1])]
    /\ UNCHANGED <<today, frontend, navigation, directory>>
    /\ UNCHANGED <<institutions, credits, installments, categories, currencies,
                   services, notifications, seedings, workers>>

\* ------------------------------------- create_transaction, statement by statement
\* Each request runs in a worker with its own session.  pc is the statement
\* the worker has reached: the transaction row is committed, then the
\* product row is queried, then the balance computed from the row as it
\* was queried is committed.
Idle == [pc |-> "idle", user |-> 0, t |-> <<>>, seen |-> 0]

\* mutation: the balance is adjusted for a row that is not stored
create_transaction_insert_unstored(w, u, t) ==
    /\ workers[w].pc = "idle"
    /\ serial["transactions"] < MaxTransactions
    /\ IF t.product_id \in DOMAIN products
       THEN /\ serial' = Bump("transactions", 1)
            /\ workers' = [workers EXCEPT ![w] = [pc |-> "inserted", user |-> u,
                                                  t |-> t, seen |-> 0]]
            /\ UNCHANGED <<transactions, response>>
       ELSE /\ UNCHANGED <<transactions, serial, workers>>
            /\ Reply("create_transaction", u, t.product_id, 400, {})
    /\ UNCHANGED <<today, frontend, navigation, directory>>
    /\ UNCHANGED <<institutions, products, credits, installments, categories,
                   currencies, services, notifications, seedings>>

create_transaction_insert(w, u, t) ==
    /\ workers[w].pc = "idle"
    /\ serial["transactions"] < MaxTransactions
    /\ IF t.product_id \in DOMAIN products
       THEN /\ transactions' = Insert(transactions, NextId("transactions"), t)
            /\ serial' = Bump("transactions", 1)
            /\ workers' = [workers EXCEPT ![w] = [pc |-> "inserted", user |-> u,
                                                  t |-> t, seen |-> 0]]
            /\ UNCHANGED response
       ELSE /\ UNCHANGED <<transactions, serial, workers>>
            /\ Reply("create_transaction", u, t.product_id, 400, {})
    /\ UNCHANGED <<today, frontend, navigation, directory>>
    /\ UNCHANGED <<institutions, products, credits, installments, categories,
                   currencies, services, notifications, seedings>>

update_product_balance_query(w) ==
    /\ workers[w].pc = "inserted"
    /\ workers' = [workers EXCEPT ![w].pc = "queried",
                                  ![w].seen = products[workers[w].t.product_id].balance]
    /\ UNCHANGED <<today, frontend, navigation, directory>>
    /\ UNCHANGED <<institutions, products, transactions, credits, installments,
                   categories, currencies, services, notifications, serial, seedings,
                   response>>

update_product_balance_commit(w) ==
    /\ workers[w].pc = "queried"
    /\ LET t == workers[w].t
       IN  /\ products' = [products EXCEPT ![t.product_id].balance =
                              Adjust(workers[w].seen, t.amount, t.type = "INCOME")]
           /\ Reply("create_transaction", workers[w].user, t.product_id, 200, {})
    /\ workers' = [workers EXCEPT ![w] = Idle]
    /\ UNCHANGED <<today, frontend, navigation, directory>>
    /\ UNCHANGED <<institutions, transactions, credits, installments, categories,
                   currencies, services, notifications, serial, seedings>>

\* the request stops after the row is committed and before the balance is:
\* the worker is killed, or the query or the commit of the balance raises.
\* The session is dropped with nothing more written, and the client gets a
\* failure.
create_transaction_stops(w) ==
    /\ workers[w].pc \in {"inserted", "queried"}
    /\ Reply("create_transaction", workers[w].user, workers[w].t.product_id, 500, {})
    /\ workers' = [workers EXCEPT ![w] = Idle]
    /\ UNCHANGED <<today, frontend, navigation, directory>>
    /\ UNCHANGED <<institutions, products, transactions, credits, installments,
                   categories, currencies, services, notifications, serial, seedings>>

\* ----------------------------------------------------------- router: credits
\* Optional[List[Decimal]]: {} is None, {l} is the list l
Truthy(optional_list) == \E l \in optional_list : Len(l) > 0

TheList(optional_list) == CHOOSE l \in optional_list : TRUE

\* Decimal division, stored in a Numeric(15, 2) column (rounded half up)
DivCents(total, n) == (2 * total + n) \div (2 * n)

payment_due_day_or_default(product) ==
    IF product.payment_due_day = None \/ product.payment_due_day = 0
    THEN 15
    ELSE product.payment_due_day

\* mutation: the last installment absorbs the rounding remainder
installment_amount_adjusted(credit, i) ==
    IF Truthy(credit.installment_amounts)
         /\ Len(TheList(credit.installment_amounts)) = credit.total_installments
    THEN TheList(credit.installment_amounts)[i + 1]
    ELSE IF i + 1 = credit.total_installments
    THEN credit.total_amount
           - i * DivCents(credit.total_amount, credit.total_installments)
    ELSE DivCents(credit.total_amount, credit.total_installments)

installment_amount(credit, i) ==
    IF Truthy(credit.installment_amounts)
         /\ Len(TheList(credit.installment_amounts)) = credit.total_installments
    THEN TheList(credit.installment_amounts)[i + 1]
    ELSE DivCents(credit.total_amount, credit.total_installments)

\* mutation: the first installment falls in the month of the purchase
installment_month_unshifted(credit, i) == AddMonths(credit.purchase_date, i)

installment_month(credit, i) == AddMonths(credit.purchase_date, i + 1)

new_installment(credit, credit_id, payment_due_day, i) ==
    [credit_id |-> credit_id,
     installment_number |-> i + 1,
     amount |-> installment_amount(credit, i),
     due_date |-> ReplaceDay(installment_month(credit, i), payment_due_day),
     status |-> PENDING]

create_credit_with_installments(u, c) ==
    LET credit_id == NextId("credits")
        first_id == NextId("installments")
        n == c.total_installments
    IN  IF c.product_id \notin DOMAIN products
        THEN /\ UNCHANGED <<credits, installments, serial>>
             /\ Reply("create_credit", u, c.product_id, 400, {})
        ELSE LET payment_due_day == payment_due_day_or_default(products[c.product_id])
                 raises == \E i \in 0..(n - 1) :
                              ReplaceDayRaises(installment_month(c, i), payment_due_day)
             IN  /\ credits' = Insert(credits, credit_id,
                                      [product_id |-> c.product_id,
                                       purchase_date |-> c.purchase_date,
                                       total_amount |-> c.total_amount,
                                       total_installments |-> n])
                 /\ IF raises
                    THEN /\ UNCHANGED installments
                         /\ serial' = Bump("credits", 1)
                         /\ Reply("create_credit", u, c.product_id, 422, {})
                    ELSE /\ installments' =
                              [id \in DOMAIN installments \cup (first_id..(first_id + n - 1)) |->
                                  IF id \in DOMAIN installments
                                  THEN installments[id]
                                  ELSE new_installment(c, credit_id, payment_due_day,
                                                       id - first_id)]
                         /\ serial' = [serial EXCEPT !["credits"] = @ + 1,
                                                     !["installments"] = @ + n]
                         /\ Reply("create_credit", u, c.product_id, 200,
                                  Rows("credits", credits', {credit_id}))

\* mutation: the purchase is taken from the balance of the product
create_credit_charged(u, c) ==
    /\ serial["credits"] < MaxCredits
    /\ create_credit_with_installments(u, c)
    /\ products' = update_product_balance(products, c.product_id, c.total_amount, FALSE)
    /\ UNCHANGED <<today, frontend, navigation, directory>>
    /\ UNCHANGED <<institutions, transactions, categories, currencies,
                   services, notifications, seedings, workers>>

create_credit(u, c) ==
    /\ serial["credits"] < MaxCredits
    /\ create_credit_with_installments(u, c)
    /\ UNCHANGED <<today, frontend, navigation, directory>>
    /\ UNCHANGED <<institutions, products, transactions, categories, currencies,
                   services, notifications, seedings, workers>>

read_credits(u, product_id) ==
    /\ Reply("read_credits", u, product_id, 200, Rows("credits", credits, get_credits(product_id)))
    /\ UNCHANGED <<today, frontend, navigation, directory>>
    /\ UNCHANGED <<institutions, products, transactions, credits, installments,
                   categories, currencies, services, notifications, serial, seedings,
                   workers>>

read_installments(u, credit_id) ==
    /\ Reply("read_installments", u, credit_id, 200,
             Rows("installments", installments, get_installments(credit_id)))
    /\ UNCHANGED <<today, frontend, navigation, directory>>
    /\ UNCHANGED <<institutions, products, transactions, credits, installments,
                   categories, currencies, services, notifications, serial, seedings,
                   workers>>

\* ------------------------------------- optimizations: bulk installment status
bulk_valid_installment_ids_any_user(installment_ids, user_id) ==
    {i \in DOMAIN installments : i \in installment_ids}

\* Installment JOIN Credit JOIN Product, filtered on the ids and the owner
bulk_valid_installment_ids(installment_ids, user_id) ==
    {i \in DOMAIN installments :
        /\ i \in installment_ids
        /\ products[credits[installments[i].credit_id].product_id].user_id = user_id}

\* the loop: one UPDATE for each entry whose id is valid, in the order of the
\* list, and one more on the counter
RECURSIVE bulk_apply_updates(_, _, _)
bulk_apply_updates(state, updates, valid_ids) ==
    IF updates = <<>> THEN state
    ELSE LET update == Head(updates)
         IN  bulk_apply_updates(
                 IF update.installment_id \in valid_ids
                 THEN [rows |-> [state.rows EXCEPT ![update.installment_id].status =
                                                     update.status],
                       updated_count |-> state.updated_count + 1]
                 ELSE state,
                 Tail(updates), valid_ids)

bulk_update_installment_status(u, installment_updates) ==
    /\ LET installment_ids ==
               {installment_updates[k].installment_id : k \in DOMAIN installment_updates}
           valid_ids == bulk_valid_installment_ids(installment_ids, u)
           done == bulk_apply_updates([rows |-> installments, updated_count |-> 0],
                                      installment_updates, valid_ids)
       IN  /\ installments' = done.rows
           /\ response' = [op |-> "bulk_update_installment_status", user |-> u,
                           target |-> 0, status |-> 200, data |-> installment_updates,
                           body |-> done.updated_count]
    /\ UNCHANGED <<today, frontend, navigation, directory>>
    /\ UNCHANGED <<institutions, products, transactions, credits, categories,
                   currencies, services, notifications, serial, seedings, workers>>

\* -------------------------------------------------------- router: currencies
\* a code is a sequence of characters; str.upper() maps each of them
UpperChar(ch) ==
    CASE ch = "u" -> "U" [] ch = "s" -> "S" [] ch = "d" -> "D" [] ch = "e" -> "E"
      [] ch = "r" -> "R" [] ch = "a" -> "A" [] ch = "t" -> "T"
      [] ch = "c" -> "C" [] ch = "l" -> "L" [] ch = "p" -> "P"
      [] OTHER -> ch

\* mutation: the code is kept as sent
Upper_kept(code) == code

Upper(code) == [i \in DOMAIN code |-> UpperChar(code[i])]

get_currency_by_code(code) == {i \in DOMAIN currencies : currencies[i].code = code}

create_currency(u, c) ==
    /\ serial["currencies"] < MaxCurrencies
    /\ IF get_currency_by_code(Upper(c.code)) # {}
       THEN /\ Reply("create_currency", u, 0, 400, {})
            /\ UNCHANGED <<currencies, serial>>
       ELSE LET code == Upper(c.code)
            IN  IF Len(code) > 3
                THEN /\ Reply("create_currency", u, 0, 500, {})
                     /\ UNCHANGED <<currencies, serial>>
                ELSE IF get_currency_by_code(code) # {}
                THEN /\ Reply("create_currency", u, 0, 409, {})
                     /\ UNCHANGED <<currencies, serial>>
                ELSE /\ currencies' = Insert(currencies, NextId("currencies"),
                                             [code |-> code, name |-> c.name,
                                              symbol |-> c.symbol])
                     /\ serial' = Bump("currencies", 1)
                     /\ Reply("create_currency", u, 0, 200,
                              Rows("currencies", currencies', {NextId("currencies")}))
    /\ UNCHANGED <<today, frontend, navigation, directory>>
    /\ UNCHANGED <<institutions, products, transactions, credits, installments,
                   categories, services, notifications, seedings, workers>>

read_currency_by_code(code) ==
    /\ LET found == get_currency_by_code(Upper(code))
       IN  IF found = {}
           THEN Reply("read_currency_by_code", 0, 0, 404, {})
           ELSE Reply("read_currency_by_code", 0, 0, 200, Rows("currencies", currencies, found))
    /\ UNCHANGED <<today, frontend, navigation, directory>>
    /\ UNCHANGED <<institutions, products, transactions, credits, installments,
                   categories, currencies, services, notifications, serial, seedings,
                   workers>>

initialize_default_categories(u) ==
    /\ seedings < MaxSeedings
    /\ categories' = create_default_categories(categories, NextId("categories"), u)
    /\ serial' = Bump("categories", Cardinality(DOMAIN categories') - Cardinality(DOMAIN categories))
    /\ seedings' = seedings + 1
    /\ Reply("initialize_default_categories", u, 0, 200, {})
    /\ UNCHANGED <<today, frontend, navigation, directory>>
    /\ UNCHANGED <<institutions, products, transactions, credits, installments,
                   currencies, services, notifications, workers>>

\* ------------------------------------------- frontend: session persistence
\* the content save_session writes at time t
save_session(token, user_data, t) ==
    [kind |-> "session", token |-> token, user |-> user_data, created_at |-> t,
     expires_at |-> t + SessionMinutes, session_id |-> OwnSession]

clear_session_kept(file) == file

\* the file is unlinked if it exists
clear_session(file) == NoFile

load_session_unexpiring(file, t) ==
    IF file.kind = "none" THEN [data |-> NoFile, file |-> file]
    ELSE IF file.kind = "unreadable" THEN [data |-> NoFile, file |-> clear_session(file)]
    ELSE [data |-> file, file |-> file]

\* what load_session returns at time t (NoFile standing for None) and the
\* file it leaves
load_session(file, t) ==
    IF file.kind = "none" THEN [data |-> NoFile, file |-> file]
    ELSE IF file.kind = "unreadable" THEN [data |-> NoFile, file |-> clear_session(file)]
    ELSE IF t > file.expires_at THEN [data |-> NoFile, file |-> clear_session(file)]
    ELSE [data |-> file, file |-> file]

\* mutation: the session is extended whether or not it has expired
extend_session_reviving(file, t) ==
    IF file.kind = "session" THEN [file EXCEPT !.expires_at = t + SessionMinutes]
    ELSE NoFile

\* the file extend_session leaves at time t
extend_session(file, t) ==
    LET loaded == load_session(file, t)
    IN  IF loaded.data.kind = "session"
        THEN [loaded.data EXCEPT !.expires_at = t + SessionMinutes]
        ELSE loaded.file

\* mutation: a file that cannot be read is left in the directory
cleanup_old_sessions_readable(file, t) ==
    IF file.kind = "session" /\ t > file.expires_at THEN NoFile ELSE file

\* the file cleanup_old_sessions leaves at time t
cleanup_old_sessions(file, t) ==
    IF file.kind = "session" /\ ~(t > file.expires_at) THEN file ELSE NoFile

Did(op, value) == outcome' = [op |-> op, at |-> now, value |-> value]

save_persistent_session(token, user_data) ==
    /\ session_file' = save_session(token, user_data, now)
    /\ Did("save_session", TRUE)
    /\ UNCHANGED <<backend, today, navigation, directory, session_state, now, authorization, accepted, issued,
                   view>>

load_persistent_session ==
    /\ LET loaded == load_session(session_file, now)
       IN  /\ session_file' = loaded.file
           /\ Did("load_session", loaded.data)
    /\ UNCHANGED <<backend, today, navigation, directory, session_state, now, authorization, accepted, issued,
                   view>>

clear_persistent_session ==
    /\ session_file' = clear_session(session_file)
    /\ Did("clear_session", TRUE)
    /\ UNCHANGED <<backend, today, navigation, directory, session_state, now, authorization, accepted, issued,
                   view>>

extend_persistent_session ==
    /\ session_file' = extend_session(session_file, now)
    /\ Did("extend_session", load_session(session_file, now).data.kind = "session")
    /\ UNCHANGED <<backend, today, navigation, directory, session_state, now, authorization, accepted, issued,
                   view>>

\* the clock of the frontend host
tick ==
    /\ now < MaxTicks * TickMinutes
    /\ now' = now + TickMinutes
    /\ Did("tick", TRUE)
    /\ UNCHANGED <<backend, today, navigation, directory, session_state, session_file, authorization, accepted,
                   issued, view>>

\* the file is truncated or overwritten from outside the program
damage_session_file ==
    /\ session_file.kind = "session"
    /\ session_file' = Unreadable
    /\ Did("damage", TRUE)
    /\ UNCHANGED <<backend, today, navigation, directory, session_state, now, authorization, accepted, issued,
                   view>>

\* ------------------------------------------ frontend: the session directory
\* no thread of the process is inside a write or a sweep of the directory
NoThreads ==
    [saver |-> [pc |-> "idle", op |-> "", data |-> NoFile, unlinked |-> FALSE],
     sweeper |-> [pc |-> "idle", file |-> "", data |-> NoFile]]

\* the directory the loop of cleanup_old_sessions leaves at time t when no
\* other thread touches it meanwhile
sweep(dir, t) == [f \in DOMAIN dir |-> cleanup_old_sessions(dir[f], t)]

\* the call of cleanup_old_sessions
cleanup_sessions ==
    /\ session_file' = cleanup_old_sessions(session_file, now)
    /\ session_dir' = sweep(session_dir, now)
    /\ Did("cleanup_old_sessions", TRUE)
    /\ UNCHANGED <<backend, today, navigation, threads, session_state, now, authorization,
                   accepted, issued, view>>

\* another process of the application saves its session
other_session_saved(f, token, user_data) ==
    /\ session_dir' = [session_dir EXCEPT ![f] =
                          [save_session(token, user_data, now) EXCEPT !.session_id = f]]
    /\ Did("other_session_saved", f)
    /\ UNCHANGED <<backend, today, navigation, threads, session_state, session_file, now,
                   authorization, accepted, issued, view>>

\* a file of another process is truncated or overwritten from outside
damage_other_file(f) ==
    /\ session_dir[f].kind = "session"
    /\ session_dir' = [session_dir EXCEPT ![f] = Unreadable]
    /\ Did("damage", f)
    /\ UNCHANGED <<backend, today, navigation, threads, session_state, session_file, now,
                   authorization, accepted, issued, view>>

\* ------------------------- session files, statement by statement
\* Every browser session of the process runs its script in a thread of its
\* own, and all of them use the one SessionPersistence and its one file.
\* saver is the thread inside save_session or extend_session, sweeper the
\* thread inside the loop of cleanup_old_sessions.  open(file, 'w') leaves
\* the file empty, which does not parse, until json.dump has written it.  An
\* unlink of a file that is open for writing removes the name (POSIX), and
\* what is written afterwards goes to a file no name leads to.
save_session_open(token, user_data) ==
    /\ threads.saver.pc = "idle"
    /\ session_file' = Unreadable
    /\ threads' = [threads EXCEPT !.saver = [pc |-> "opened", op |-> "save_session",
                                             data |-> save_session(token, user_data, now),
                                             unlinked |-> FALSE]]
    /\ Did("open", "save_session")
    /\ UNCHANGED <<backend, today, navigation, session_dir, session_state, now,
                   authorization, accepted, issued, view>>

extend_session_open ==
    /\ threads.saver.pc = "idle"
    /\ LET loaded == load_session(session_file, now)
       IN  IF loaded.data.kind = "session"
           THEN /\ session_file' = Unreadable
                /\ threads' = [threads EXCEPT !.saver =
                                   [pc |-> "opened", op |-> "extend_session",
                                    data |-> [loaded.data EXCEPT
                                                 !.expires_at = now + SessionMinutes],
                                    unlinked |-> FALSE]]
                /\ Did("open", "extend_session")
           ELSE /\ session_file' = loaded.file
                /\ Did("extend_session", FALSE)
                /\ UNCHANGED threads
    /\ UNCHANGED <<backend, today, navigation, session_dir, session_state, now,
                   authorization, accepted, issued, view>>

\* json.dump and the close of the file
session_dump ==
    /\ threads.saver.pc = "opened"
    /\ session_file' = IF threads.saver.unlinked THEN session_file ELSE threads.saver.data
    /\ threads' = [threads EXCEPT !.saver = NoThreads.saver]
    /\ Did(threads.saver.op, TRUE)
    /\ UNCHANGED <<backend, today, navigation, session_dir, session_state, now,
                   authorization, accepted, issued, view>>

\* the file of session id f as the directory holds it
FileAt(f) == IF f = OwnSession THEN session_file ELSE session_dir[f]

\* one turn of the loop: the file is opened and json.load reads it
cleanup_read(f) ==
    /\ threads.sweeper.pc = "idle"
    /\ FileAt(f).kind # "none"
    /\ threads' = [threads EXCEPT !.sweeper = [pc |-> "read", file |-> f,
                                               data |-> FileAt(f)]]
    /\ Did("cleanup_read", f)
    /\ UNCHANGED <<backend, today, navigation, session_dir, session_state, session_file,
                   now, authorization, accepted, issued, view>>

\* the rest of the turn: the file is unlinked if what was read has expired
\* or did not parse
cleanup_unlink ==
    /\ threads.sweeper.pc = "read"
    /\ LET f == threads.sweeper.file
           unlinks == cleanup_old_sessions(threads.sweeper.data, now) = NoFile
       IN  /\ session_file' = IF unlinks /\ f = OwnSession THEN NoFile ELSE session_file
           /\ session_dir' = IF unlinks /\ f # OwnSession
                             THEN [session_dir EXCEPT ![f] = NoFile]
                             ELSE session_dir
           /\ threads' = [threads EXCEPT
                             !.sweeper = NoThreads.sweeper,
                             !.saver.unlinked =
                                 @ \/ (unlinks /\ f = OwnSession
                                          /\ threads.saver.pc = "opened")]
           /\ Did("cleanup_unlink", f)
    /\ UNCHANGED <<backend, today, navigation, session_state, now, authorization, accepted,
                   issued, view>>

\* ------------------------------------------------ frontend: the API client
\* the status of the backend for a request carrying this Authorization
\* header: 401 unless the header holds a token the backend accepts
current_user_status(header) == IF header \in accepted THEN 200 ELSE 401

\* the Authorization header of the cached client after _setup_auth: replaced
\* only if the session state holds a token
setup_auth(header, state) == IF state.token # None THEN state.token ELSE header

\* _handle_response: the session state it leaves and how it ends.  st.rerun()
\* ends the script run by an exception that is not an Exception, so no
\* `except Exception` of a caller catches it.
handle_response(state, status) ==
    IF status = 401
    THEN [state |-> [state EXCEPT !.token = None, !.user = None], flow |-> "rerun"]
    ELSE IF status >= 400 THEN [state |-> state, flow |-> "raise"]
    ELSE [state |-> state, flow |-> "return"]

\* the backend stops accepting a token it has issued
token_expires(token) ==
    /\ token \in accepted
    /\ accepted' = accepted \ {token}
    /\ Did("token_expires", token)
    /\ UNCHANGED <<backend, today, navigation, directory, session_state, session_file, now, authorization,
                   issued, view>>

\* any request the main view makes through _get, _post, _put or _delete; the
\* backend answers by the header, or fails
api_call ==
    /\ view = "main"
    /\ \E failure \in BOOLEAN :
          LET status == IF failure THEN 500 ELSE current_user_status(authorization)
              handled == handle_response(session_state, status)
          IN  /\ session_state' = handled.state
              /\ view' = IF handled.flow = "rerun" THEN "rerun" ELSE view
              /\ Did("api_call", status)
    /\ UNCHANGED <<backend, today, navigation, directory, session_file, now, authorization, accepted, issued>>

\* ------------------------------------------------------ frontend: the session
LoggedOut == [token |-> None, user |-> None, logged_in |-> FALSE]

\* the controls of the pagination have not been rendered
NotShown == [page |-> 0, total_pages |-> 0]

\* the session state has neither of the pagination keys, and no widget of
\* the controls has a value
NoPagination ==
    [page |-> None, items_per_page |-> None, items_select |-> None, jump |-> None,
     shown |-> NotShown]

is_authenticated(state) == state.logged_in /\ state.token # None

\* one run of the script through require_auth: the session state exists,
\* old session files are cleaned up, a persisted session is restored if the
\* state is not logged in, and the login form or the main view is rendered
\* unless the run ends in a rerun
require_auth ==
    /\ \E failure \in BOOLEAN :
          LET cleaned == cleanup_old_sessions(session_file, now)
              loaded == load_session(cleaned, now)
          IN  IF ~session_state.logged_in /\ loaded.data.kind = "session"
              THEN LET header == setup_auth(authorization, session_state)
                       status == IF failure THEN 500 ELSE current_user_status(header)
                       handled == handle_response(session_state, status)
                   IN  /\ authorization' = header
                       /\ IF handled.flow = "return"
                          THEN /\ session_state' = [token |-> loaded.data.token,
                                                    user |-> loaded.data.user,
                                                    logged_in |-> TRUE]
                               /\ session_file' = extend_session(loaded.file, now)
                               /\ view' = "rerun"
                               /\ Did("init_persistent_session", "restored")
                          ELSE IF handled.flow = "rerun"
                          THEN /\ session_state' = handled.state
                               /\ session_file' = loaded.file
                               /\ view' = "rerun"
                               /\ Did("init_persistent_session", "rejected")
                          ELSE /\ session_state' = session_state
                               /\ session_file' = clear_session(loaded.file)
                               /\ view' = IF is_authenticated(session_state)
                                          THEN "main" ELSE "login"
                               /\ Did("init_persistent_session", "failed")
              ELSE /\ session_file' = IF session_state.logged_in THEN cleaned
                                      ELSE loaded.file
                   /\ view' = IF is_authenticated(session_state) THEN "main" ELSE "login"
                   /\ Did("init_persistent_session", "none")
                   /\ UNCHANGED <<session_state, authorization>>
    /\ session_dir' = sweep(session_dir, now)
    /\ UNCHANGED <<backend, today, navigation, threads, now, accepted, issued>>

\* the login form is submitted for user u; the backend issues a token,
\* answers 401 or fails
login(u) ==
    /\ view = "login"
    /\ \E status \in {200, 401, 500} :
          IF status = 200
          THEN LET token == issued + 1
               IN  /\ issued < MaxLogins
                   /\ issued' = token
                   /\ accepted' = accepted \cup {token}
                   /\ session_state' = [token |-> token, user |-> u, logged_in |-> TRUE]
                   /\ authorization' = setup_auth(authorization, session_state')
                   /\ session_file' = save_session(token, u, now)
                   /\ view' = "rerun"
                   /\ Did("login", status)
          ELSE LET handled == handle_response(session_state, status)
               IN  /\ session_state' = handled.state
                   /\ view' = IF handled.flow = "rerun" THEN "rerun" ELSE view
                   /\ Did("login", status)
                   /\ UNCHANGED <<issued, accepted, authorization, session_file>>
    /\ UNCHANGED <<backend, today, navigation, directory, now>>

logout ==
    /\ view = "main"
    /\ is_authenticated(session_state)
    /\ session_state' = LoggedOut
    /\ session_file' = clear_session(session_file)
    /\ view' = "rerun"
    /\ Did("logout", TRUE)
    /\ UNCHANGED <<backend, today, navigation, directory, now, authorization, accepted, issued>>

\* the page is loaded anew: the browser session starts with an empty session
\* state, the process keeps its client and its session file
reload ==
    /\ session_state' = LoggedOut
    /\ view' = "none"
    /\ current_page' = NoPage
    /\ pagination' = NoPagination
    /\ Did("reload", TRUE)
    /\ UNCHANGED <<backend, today, page_file, directory, session_file, now, authorization,
                   accepted, issued>>

\* ------------------------------------------------- frontend: the navigation
\* the content save_page_state writes
save_page_state(page) == [kind |-> "page", current_page |-> page]

\* the page load_page_state returns for the page-state file
load_page_state(file) == IF file.kind = "page" THEN file.current_page ELSE "dashboard"

\* the sidebar buttons of the quick actions and the page each opens
QuickActions == {"quick_trans", "quick_cred"}

quick_page(button) == IF button = "quick_trans" THEN "transactions" ELSE "credits"

\* the navigation of one run of main(): the current page is set if the
\* session state has none, the menu is rendered and the click of this run,
\* if any, is served; a button can only be clicked if an earlier run of the
\* session rendered it, and the menu has no button for the current page
main_navigation(click) ==
    /\ view = "main"
    /\ click # NoPage => current_page # NoPage /\ click # current_page
    /\ LET started == IF current_page = NoPage THEN "dashboard" ELSE current_page
           entered == IF started = NoPage THEN load_page_state(page_file) ELSE started
       IN  IF click \in Pages
           THEN /\ current_page' = click
                /\ page_file' = save_page_state(click)
                /\ view' = "rerun"
           ELSE IF click \in QuickActions
           THEN /\ current_page' = quick_page(click)
                /\ page_file' = save_page_state(quick_page(click))
                /\ view' = "rerun"
           ELSE /\ current_page' = entered
                /\ page_file' = save_page_state(entered)
                /\ view' = view
    /\ Did("main_navigation", click)
    /\ UNCHANGED <<backend, today, pagination, directory, session_state, session_file, now,
                   authorization, accepted, issued>>

\* ------------------------------------------------- frontend: the pagination
\* the page size main.py asks for, and the sizes the selector offers
DefaultItemsPerPage == 20

SizeOptions == {10, 20, 50, 100}

\* the setter of current_page
set_current_page(state, value) == [state EXCEPT !.page = Max(1, value)]

\* the setter of items_per_page
set_items_per_page(state, value) ==
    set_current_page([state EXCEPT !.items_per_page = Max(5, Min(100, value))], 1)

\* PaginationState.__init__: the assignment to self.items_per_page goes
\* through the setter of the property, then the keys the session state does
\* not have are initialised
PaginationState(state, items_per_page) ==
    LET assigned == set_items_per_page(state, items_per_page)
        paged == IF assigned.page = None THEN [assigned EXCEPT !.page = 1] ELSE assigned
    IN  IF paged.items_per_page = None
        THEN [paged EXCEPT !.items_per_page = items_per_page]
        ELSE paged

get_total_pages(state, total_items) ==
    IF total_items = 0 THEN 1 ELSE (total_items - 1) \div state.items_per_page + 1

\* the pages the jump selector offers
page_options(current, total_pages) ==
    {1, total_pages} \cup (Max(1, current - 2) .. (Min(total_pages + 1, current + 3) - 1))

\* st.selectbox with a key: the value the widget holds if it is one of the
\* options, otherwise the option at index
selectbox(held, options, at_index) == IF held \in options THEN held ELSE at_index

\* what the user does to the controls before a run: nothing, a button, or a
\* choice in one of the two selectors
Clicks(sizes, pages) ==
    {<<"none", 0>>, <<"prev", 0>>, <<"next", 0>>}
        \cup {<<"size", size>> : size \in sizes} \cup {<<"jump", page>> : page \in pages}

\* a control can be used only as the last finished run rendered it
can_click(state, click) ==
    CASE click[1] = "none" -> TRUE
      [] click[1] = "prev" -> state.shown.page > 1
      [] click[1] = "next" -> state.shown.total_pages > 0
                                 /\ state.shown.page < state.shown.total_pages
      [] click[1] = "size" -> state.shown.total_pages > 0 /\ click[2] # state.items_select
      [] OTHER -> /\ state.shown.total_pages > 10
                  /\ click[2] \in page_options(state.shown.page, state.shown.total_pages)
                  /\ click[2] # state.jump

\* one run of render_transactions_paginated over total_items transactions
\* with the controls of render_pagination_controls
render_transactions_paginated(total_items, click) ==
    /\ view = "main"
    /\ total_items > 0
    /\ can_click(pagination, click)
    /\ LET created == PaginationState(pagination, DefaultItemsPerPage)
           total_pages == get_total_pages(created, total_items)
           new_items_per_page ==
               IF click[1] = "size" THEN click[2]
               ELSE selectbox(pagination.items_select, SizeOptions, created.items_per_page)
           sized == [created EXCEPT !.items_select = new_items_per_page]
           options == page_options(sized.page, total_pages)
           selected_page ==
               IF click[1] = "jump" THEN click[2]
               ELSE selectbox(sized.jump, options,
                              IF sized.page \in options THEN sized.page ELSE 1)
           jumped == [sized EXCEPT !.jump = selected_page]
       IN  /\ IF new_items_per_page # created.items_per_page
              THEN /\ pagination' = [set_items_per_page(sized, new_items_per_page)
                                        EXCEPT !.shown = NotShown]
                   /\ view' = "rerun"
              ELSE IF click[1] = "prev"
              THEN /\ pagination' = [set_current_page(sized, sized.page - 1)
                                        EXCEPT !.shown = NotShown]
                   /\ view' = "rerun"
              ELSE IF click[1] = "next"
              THEN /\ pagination' = [set_current_page(sized, sized.page + 1)
                                        EXCEPT !.shown = NotShown]
                   /\ view' = "rerun"
              ELSE IF total_pages > 10 /\ selected_page # sized.page
              THEN /\ pagination' = [set_current_page(jumped, selected_page)
                                        EXCEPT !.shown = NotShown]
                   /\ view' = "rerun"
              ELSE /\ pagination' =
                          [(IF total_pages > 10 THEN jumped ELSE sized)
                              EXCEPT !.shown = [page |-> sized.page,
                                                total_pages |-> total_pages]]
                   /\ view' = view
           /\ Did("render_transactions_paginated",
                  [click |-> click, page |-> created.page,
                   items_per_page |-> created.items_per_page])
    /\ UNCHANGED <<backend, today, current_page, page_file, directory, session_state,
                   session_file, now, authorization, accepted, issued>>

\* ------------------------------------------- frontend: the transaction form
\* a text is a sequence of characters; str.lower() maps each of them
LowerChar(ch) ==
    CASE ch = "C" -> "c" [] ch = "A" -> "a" [] ch = "F" -> "f" [] ch = "E" -> "e"
      [] ch = "B" -> "b" [] ch = "R" -> "r"
      [] OTHER -> ch

Lower(text) == [i \in DOMAIN text |-> LowerChar(text[i])]

\* str.strip(): the spaces at both ends are dropped
RECURSIVE Strip(_)
Strip(text) ==
    IF text = <<>> THEN text
    ELSE IF Head(text) = " " THEN Strip(Tail(text))
    ELSE IF text[Len(text)] = " " THEN Strip(SubSeq(text, 1, Len(text) - 1))
    ELSE text

\* a in b
Contains(a, b) ==
    \E i \in 0..(Len(b) - Len(a)) : SubSeq(b, i + 1, i + Len(a)) = a

Abs(n) == IF n < 0 THEN 0 - n ELSE n

\* amount and min_amount are in cents; max_amount is the whole units of a
\* maximum that ends in .99, so amount > maximum is amount \div 100 > max_amount
validate_amount_real_time(amount, min_amount, max_amount) ==
    IF amount = None THEN FALSE
    ELSE IF amount <= 0 THEN FALSE
    ELSE IF amount < min_amount THEN FALSE
    ELSE IF amount \div 100 > max_amount THEN FALSE
    ELSE TRUE

\* the fields are present: none is None (here the empty text) or an empty
\* or blank text
validate_required_fields(fields) == \A value \in fields : Strip(value) # <<>>

\* trans.get('description') of a row of the response
description_of(trans) ==
    IF "description" \in DOMAIN trans.data THEN trans.data.description ELSE <<>>

\* amounts are in cents: a difference under 0.01 is no difference, and
\* amount_diff / amount < 0.05 is 20 * amount_diff < amount
amount_similar(trans_amount, amount) ==
    LET amount_diff == Abs(trans_amount - amount)
    IN  amount_diff < 1 \/ 20 * amount_diff < amount

desc_similar(description, trans_description) ==
    /\ description # <<>>
    /\ trans_description # <<>>
    /\ LET desc1 == Strip(Lower(description))
           desc2 == Strip(Lower(trans_description))
       IN  \/ desc1 = desc2
           \/ /\ Len(desc1) > 3
              /\ Len(desc2) > 3
              /\ Contains(desc1, desc2) \/ Contains(desc2, desc1)

potential_duplicate(description, amount, transaction_date, trans) ==
    LET days_diff == Abs(toordinal(transaction_date) - toordinal(trans.data.transaction_date))
    IN  /\ ~(days_diff > 30)
        /\ amount_similar(trans.data.amount, amount)
        /\ desc_similar(description, description_of(trans)) \/ days_diff = 0

\* check_duplicate_transaction: whether it reports a duplicate, or raises.
\* The message of a duplicate formats the amount of the stored transaction
\* with :,.2f, which raises for an amount the response carries as a JSON
\* string and works for one it carries as a JSON number.
check_duplicate_transaction(description, amount, transaction_date, existing_transactions, amount_json) ==
    LET potential_duplicates ==
            SelectSeq(existing_transactions,
                      LAMBDA trans : potential_duplicate(description, amount,
                                                         transaction_date, trans))
    IN  IF existing_transactions = <<>> THEN [duplicate |-> FALSE, raised |-> FALSE]
        ELSE IF potential_duplicates = <<>> THEN [duplicate |-> FALSE, raised |-> FALSE]
        ELSE IF amount_json = "string" THEN [duplicate |-> FALSE, raised |-> TRUE]
        ELSE [duplicate |-> TRUE, raised |-> FALSE]

can_submit(field_validation, amount_validation, duplicate) ==
    field_validation /\ amount_validation /\ ~duplicate

\* the least amount of the number input, in cents, and the whole units of
\* the greatest, 999999999.99
MinAmount == 1

MaxAmount == 999999999

\* one run of transaction_form for the logged-in user u with the values the
\* widgets hold: the validations, the duplicate check against the
\* transactions of the product as the backend lists them (the request may
\* fail, and the backend may send amounts as numbers or as strings), the
\* submit button, and the creation request if the button was pressed.  The
\* button can be pressed only if the run before rendered it enabled.
transaction_form(u, values, submitted, failure, amount_json) ==
    /\ view = "main"
    /\ session_state.user = u
    /\ get_product(values.product_id, u) # {}
    /\ submitted => outcome.op = "transaction_form" /\ outcome.value.can_submit
    /\ \E recent \in get_transactions(values.product_id, DefaultSkip, DefaultLimit) :
          LET amount_validation == validate_amount_real_time(values.amount, MinAmount, MaxAmount)
              field_validation ==
                  /\ validate_required_fields({values.category})
                  /\ amount_validation
              checked ==
                  IF values.description # <<>> /\ values.amount # 0 /\ amount_validation
                  THEN IF failure THEN [duplicate |-> FALSE, raised |-> TRUE]
                       ELSE check_duplicate_transaction(
                                values.description, values.amount, values.transaction_date,
                                RowSeq("transactions", transactions, recent), amount_json)
                  ELSE [duplicate |-> FALSE, raised |-> FALSE]
              enabled == can_submit(field_validation, amount_validation, checked.duplicate)
          IN  /\ Did("transaction_form",
                     [category |-> values.category, amount |-> values.amount,
                      duplicate |-> checked.duplicate, can_submit |-> enabled,
                      submitted |-> submitted])
              /\ IF submitted /\ enabled
                 THEN /\ serial["transactions"] < MaxTransactions
                      /\ transactions' = Insert(transactions, NextId("transactions"), values)
                      /\ serial' = Bump("transactions", 1)
                      /\ products' = update_product_balance(products, values.product_id,
                                                            values.amount,
                                                            values.type = "INCOME")
                      /\ Reply("create_transaction", u, values.product_id, 200,
                               Rows("transactions", transactions', {NextId("transactions")}))
                      /\ view' = "rerun"
                 ELSE UNCHANGED <<transactions, serial, products, response, view>>
    /\ UNCHANGED <<institutions, credits, installments, categories, currencies, services,
                   notifications, seedings, workers>>
    /\ UNCHANGED <<today, navigation, directory, session_state, session_file, now,
                   authorization, accepted, issued>>

\* the page-state file is removed or overwritten from outside the program
damage_page_file ==
    /\ \E file \in {NoFile, Unreadable} :
          /\ page_file # file
          /\ page_file' = file
    /\ Did("damage_page_file", TRUE)
    /\ UNCHANGED <<backend, today, current_page, pagination, directory, session_state,
                   session_file, now, authorization, accepted, issued, view>>

\* ------------------------------------------------------------ initial state
\* the store as the bootstrap leaves it for two registered users: one
\* currency, one institution for each user
USD == <<"U", "S", "D">>

Init ==
    /\ institutions = [i \in Users |-> [user_id |-> i, name |-> "bank"]]
    /\ currencies = [i \in {1} |-> [code |-> USD, name |-> "US Dollar", symbol |-> "$"]]
    /\ products = <<>>
    /\ transactions = <<>>
    /\ credits = <<>>
    /\ installments = <<>>
    /\ categories = <<>>
    /\ services = <<>>
    /\ notifications = <<>>
    /\ serial = [t \in Tables |-> IF t = "institutions" THEN Cardinality(Users)
                                  ELSE IF t = "currencies" THEN 1 ELSE 0]
    /\ seedings = 0
    /\ response = [op |-> "none", user |-> 0, target |-> 0, status |-> 0, body |-> {}]
    /\ workers = [w \in Workers |-> Idle]
    /\ today = FirstDay
    /\ session_state = LoggedOut
    /\ session_file = NoFile
    /\ now = 0
    /\ authorization = None
    /\ accepted = {}
    /\ issued = 0
    /\ view = "none"
    /\ outcome = [op |-> "none", at |-> 0, value |-> None]
    /\ current_page = NoPage
    /\ page_file = NoFile
    /\ pagination = NoPagination
    /\ session_dir = [f \in OtherSessions |-> NoFile]
    /\ threads = NoThreads

\* ------------------------------------------------------------------ inputs
ProductIds == 1..(MaxProducts + 1)

OwnInstitution(u) == u

LedgerProduct(u) ==
    [institution_id : {OwnInstitution(u), 5}, currency_id : {1}, payment_due_day : {None}]

TransactionCreate ==
    [product_id : ProductIds, type : TransactionType,
     transaction_date : {[y |-> 2024, m |-> 1, d |-> 31]}, amount : {100, 250}]

\* ------------------------------------------------- specification: the ledger
NextLedger ==
    \/ \E u \in Users : \E p \in LedgerProduct(u) : create_product(u, p)
    \/ \E u \in Users, t \in TransactionCreate : create_transaction(u, t)
    \/ \E u \in Users, p \in ProductIds :
          read_transactions(u, p, DefaultSkip, DefaultLimit)

SpecLedger == Init /\ [][NextLedger]_vars

\* --------------------------------------- specification: transactions in bulk
\* one product for each user
BatchProductIds == 1..Cardinality(Users)

BatchEntry ==
    {e \in [product_id : BatchProductIds, type : TransactionType,
            transaction_date : {[y |-> 2024, m |-> 1, d |-> 31]}, amount : {100, 250}] :
        e.amount = 250 <=> e.type = "INCOME"}

Batches == UNION {[1..n -> BatchEntry] : n \in 0..MaxBatch}

NextBulk ==
    \/ \E u \in Users : \E p \in LedgerProduct(u) :
          serial["products"] < Cardinality(BatchProductIds) /\ create_product(u, p)
    \/ \E u \in Users, b \in Batches : bulk_create_transactions(u, b)

SpecBulk == Init /\ [][NextBulk]_vars

\* ------------------------------- specification: installment status in bulk
PlainCredit ==
    [product_id : BatchProductIds,
     purchase_date : {[y |-> 2023, m |-> 12, d |-> 31]},
     total_amount : {101},
     total_installments : {1, 2},
     installment_amounts : {{}}]

UpdatedIds == 1..3

StatusUpdate == [installment_id : UpdatedIds, status : {PAID}]

StatusUpdates == UNION {[1..n -> StatusUpdate] : n \in 0..MaxBatch}

NextStatus ==
    \/ \E u \in Users : \E p \in LedgerProduct(u) :
          serial["products"] < Cardinality(BatchProductIds) /\ create_product(u, p)
    \/ \E u \in Users, c \in PlainCredit :
          serial["credits"] < Cardinality(BatchProductIds) /\ create_credit(u, c)
    \/ \E u \in Users, b \in StatusUpdates : bulk_update_installment_status(u, b)

SpecStatus == Init /\ [][NextStatus]_vars

\* ------------------------------------ specification: pages of a transaction list
ListedTransaction ==
    [product_id : {1}, type : {"EXPENSE"},
     transaction_date : {[y |-> 2024, m |-> 1, d |-> 31], [y |-> 2024, m |-> 2, d |-> 1]},
     amount : {100, 250}]

NextListing ==
    \/ \E u \in Users : \E p \in LedgerProduct(u) :
          create_product(u, p)
    \/ \E u \in Users, t \in ListedTransaction : create_transaction(u, t)
    \/ \E u \in Users, p \in {1}, skip \in 0..MaxSkip, limit \in 0..MaxLimit :
          read_transactions(u, p, skip, limit)

SpecListing == Init /\ [][NextListing]_vars

\* ------------------------------------------ specification: services falling due
UpcomingService ==
    [name : {"gym"}, amount : {100}, currency_id : {1}, is_active : BOOLEAN,
     next_due_date : {[y |-> 2024, m |-> 1, d |-> 29], [y |-> 2024, m |-> 1, d |-> 31],
                      [y |-> 2024, m |-> 2, d |-> 6], [y |-> 2024, m |-> 2, d |-> 7]},
     product_id : {None}]

DaysAhead == {DefaultDaysAhead, 0, 0 - 1}

NextUpcoming ==
    \/ \E u \in Users, s \in UpcomingService : create_service(u, s)
    \/ \E u \in Users, n \in DaysAhead : read_upcoming_services(u, n)
    \/ midnight

SpecUpcoming == Init /\ [][NextUpcoming]_vars

\* --------------------------------------- specification: owned rows by their id
InstitutionCreate == [name : {"bank"}]

CategoryCreate == [name : {"Otros"}, type : {"EXPENSE"}, emoji : {"memo"}]

ServiceCreate ==
    [name : {"gym", "net"}, amount : {100}, currency_id : {1}, is_active : {TRUE},
     next_due_date : {[y |-> 2024, m |-> 1, d |-> 31]}, product_id : {None}]

NotificationCreate ==
    [type : {"GENERAL"}, title : {"hello"}, message : {"text"}, is_read : {FALSE},
     related_service_id : {None, 1}, related_product_id : {None}]

RowIds == 1..(Cardinality(Users) + MaxRows)

OwnedRowsCreated ==
    (serial["institutions"] - Cardinality(Users)) + serial["products"]
        + serial["categories"] + serial["services"] + serial["notifications"]

NextOwnership ==
    \/ \E u \in Users, i \in InstitutionCreate :
          OwnedRowsCreated < MaxRows /\ create_institution(u, i)
    \/ \E u \in Users : \E p \in LedgerProduct(u) :
          OwnedRowsCreated < MaxRows /\ create_product(u, p)
    \/ \E u \in Users, c \in CategoryCreate :
          OwnedRowsCreated < MaxRows /\ create_category(u, c)
    \/ \E u \in Users, s \in ServiceCreate :
          OwnedRowsCreated < MaxRows /\ create_service(u, s)
    \/ \E u \in Users, n \in NotificationCreate :
          OwnedRowsCreated < MaxRows /\ create_notification(u, n)
    \/ \E u \in Users, id \in RowIds : read_institution(u, id)
    \/ \E u \in Users, id \in RowIds : delete_institution(u, id)
    \/ \E u \in Users, id \in RowIds : read_product(u, id)
    \/ \E u \in Users, id \in RowIds : delete_product(u, id)
    \/ \E u \in Users, id \in RowIds : read_category(u, id)
    \/ \E u \in Users, id \in RowIds : delete_category(u, id)
    \/ \E u \in Users, id \in RowIds : read_service(u, id)
    \/ \E u \in Users, id \in RowIds, s \in ServiceCreate : update_service(u, id, s)
    \/ \E u \in Users, id \in RowIds : delete_service(u, id)
    \/ \E u \in Users, id \in RowIds : mark_notification_read(u, id)
    \/ \E u \in Users, id \in RowIds : delete_notification(u, id)

SpecOwnership == Init /\ [][NextOwnership]_vars

\* ------------------------------------------------ specification: notifications
Notice ==
    [type : {"GENERAL"}, title : {"hello"}, message : {"text"}, is_read : BOOLEAN,
     related_service_id : {None}, related_product_id : {None}]

NotificationIds == 1..(MaxNotifications + 1)

ServiceIds == 1..(MaxServices + 1)

NextNotifications ==
    \/ \E u \in Users, n \in Notice : create_notification(u, n)
    \/ \E u \in Users, id \in NotificationIds : mark_notification_read(u, id)
    \/ \E u \in Users : mark_all_notifications_read(u)
    \/ \E u \in Users : get_unread_count(u)

SpecNotifications == Init /\ [][NextNotifications]_vars

\* --------------------------------- specification: notifications of services due
NextServiceDue ==
    \/ \E u \in Users, s \in ServiceCreate : create_service(u, s)
    \/ \E u \in Users, id \in ServiceIds : create_service_due_notification(u, id)
    \/ \E u \in Users : get_unread_count(u)

SpecServiceDue == Init /\ [][NextServiceDue]_vars

\* ------------------------------------------- specification: the session file
Tokens == 1..MaxLogins

NextSession ==
    \/ \E token \in Tokens, u \in Users : save_persistent_session(token, u)
    \/ load_persistent_session
    \/ extend_persistent_session
    \/ clear_persistent_session
    \/ tick
    \/ damage_session_file

SpecSession == Init /\ [][NextSession]_vars

\* -------------------------------------------- specification: the pagination
TotalItems == {30, 250}

JumpPages == {2, 3, 13}

NextPagination ==
    \/ require_auth
    \/ \E u \in {1} : login(u)
    \/ reload
    \/ \E total_items \in TotalItems, click \in Clicks(SizeOptions, JumpPages) :
          render_transactions_paginated(total_items, click)

SpecPagination == Init /\ [][NextPagination]_vars

\* -------------------------------------- specification: the session directory
NextSweep ==
    \/ \E token \in {1}, u \in {1} : save_persistent_session(token, u)
    \/ \E f \in OtherSessions, token \in {2}, u \in {2} : other_session_saved(f, token, u)
    \/ damage_session_file
    \/ \E f \in OtherSessions : damage_other_file(f)
    \/ cleanup_sessions
    \/ tick

SpecSweep == Init /\ [][NextSweep]_vars

\* ------------------------------- specification: a sweep during a write
NextSweepRace ==
    \/ \E token \in {1}, u \in {1} : save_session_open(token, u)
    \/ extend_session_open
    \/ session_dump
    \/ \E f \in {OwnSession} : cleanup_read(f)
    \/ cleanup_unlink
    \/ threads.saver.pc = "idle" /\ load_persistent_session
    \/ threads.saver.pc = "idle" /\ clear_persistent_session
    \/ tick

SpecSweepRace == Init /\ [][NextSweepRace]_vars

\* ----------------------------------------------- specification: the frontend
NextFrontend ==
    \/ require_auth
    \/ \E u \in Users : login(u)
    \/ logout
    \/ api_call
    \/ reload
    \/ \E token \in Tokens : token_expires(token)
    \/ tick
    \/ damage_session_file

SpecFrontend == Init /\ [][NextFrontend]_vars

\* --------------------------------------------- specification: the navigation
NextNavigation ==
    \/ require_auth
    \/ \E u \in {1} : login(u)
    \/ reload
    \/ \E click \in {NoPage} \cup Pages \cup QuickActions : main_navigation(click)
    \/ damage_page_file

SpecNavigation == Init /\ [][NextNavigation]_vars

\* ------------------------------------------ specification: the transaction form
Cafe == <<"c", "a", "f", "e">>

FormValues ==
    [product_id : {1}, type : {"EXPENSE"},
     transaction_date : {[y |-> 2024, m |-> 1, d |-> 31], [y |-> 2024, m |-> 2, d |-> 1],
                         [y |-> 2024, m |-> 3, d |-> 2]},
     category : {<<>>, <<"O", "t", "r", "o", "s">>},
     description : {<<>>, Cafe, <<" ", "C", "A", "F", "E">>},
     amount : {100, 104}]

NextForm ==
    \/ require_auth
    \/ \E u \in {1} : login(u)
    \/ \E u \in {1} : \E p \in LedgerProduct(u) :
          serial["products"] < 1 /\ create_product(u, p)
    \/ \E u \in {1}, values \in FormValues, submitted, failure \in BOOLEAN,
          amount_json \in {"number", "string"} :
             /\ submitted => serial["transactions"] < MaxSubmissions
             /\ transaction_form(u, values, submitted, failure, amount_json)

SpecForm == Init /\ [][NextForm]_vars

\* ------------------------------- specification: what changes a balance
\* the rows created on top of the product
FrameRows ==
    serial["transactions"] + serial["credits"] + serial["services"]
        + serial["notifications"] + serial["categories"]

FrameProduct == [institution_id : {1}, currency_id : {1}, payment_due_day : {None}]

FrameTransaction ==
    [product_id : {1}, type : TransactionType,
     transaction_date : {[y |-> 2024, m |-> 1, d |-> 31]}, amount : {100}]

FrameBatches == {<<t>> : t \in {e \in FrameTransaction : e.type = "INCOME"}}

FrameCredit ==
    [product_id : {1}, purchase_date : {[y |-> 2023, m |-> 12, d |-> 31]},
     total_amount : {101}, total_installments : {1}, installment_amounts : {{}}]

FrameStatusUpdates == {<<update>> : update \in [installment_id : {1}, status : {PAID, PENDING}]}

FrameService ==
    [name : {"gym"}, amount : {100}, currency_id : {1}, is_active : {TRUE},
     next_due_date : {[y |-> 2024, m |-> 1, d |-> 31]}, product_id : {None, 1}]

FrameNotice ==
    [type : {"GENERAL"}, title : {"hello"}, message : {"text"}, is_read : {FALSE},
     related_service_id : {None}, related_product_id : {None}]

FrameIds == {1}

NextFrame ==
    \/ \E p \in FrameProduct : serial["products"] < 1 /\ create_product(1, p)
    \/ \E t \in FrameTransaction : FrameRows < MaxFrameRows /\ create_transaction(1, t)
    \/ \E b \in FrameBatches : FrameRows < MaxFrameRows /\ bulk_create_transactions(1, b)
    \/ \E c \in FrameCredit : FrameRows < MaxFrameRows /\ create_credit(1, c)
    \/ \E b \in FrameStatusUpdates : bulk_update_installment_status(1, b)
    \/ \E sv \in FrameService : FrameRows < MaxFrameRows /\ create_service(1, sv)
    \/ \E id \in FrameIds, sv \in FrameService : update_service(1, id, sv)
    \/ \E id \in FrameIds : delete_service(1, id)
    \/ \E n \in FrameNotice : FrameRows < MaxFrameRows /\ create_notification(1, n)
    \/ \E id \in FrameIds :
          FrameRows < MaxFrameRows /\ create_service_due_notification(1, id)
    \/ \E id \in FrameIds : mark_notification_read(1, id)
    \/ mark_all_notifications_read(1)
    \/ \E id \in FrameIds : delete_notification(1, id)
    \/ \E c \in CategoryCreate : FrameRows < MaxFrameRows /\ create_category(1, c)
    \/ \E id \in FrameIds : delete_category(1, id)
    \/ FrameRows < MaxFrameRows /\ initialize_default_categories(1)

SpecFrame == Init /\ [][NextFrame]_vars

\* ------------------------------ specification: deleting under dependents
\* the rows created under institution 1
Dependents ==
    serial["products"] + serial["transactions"] + serial["credits"] + serial["services"]
        + serial["notifications"]

DependentNotice ==
    [type : {"GENERAL"}, title : {"hello"}, message : {"text"}, is_read : {FALSE},
     related_service_id : {None}, related_product_id : {None, 1}]

NextDelete ==
    \/ \E p \in FrameProduct : Dependents < MaxDependents /\ create_product(1, p)
    \/ \E t \in FrameTransaction : Dependents < MaxDependents /\ create_transaction(1, t)
    \/ \E c \in FrameCredit : Dependents < MaxDependents /\ create_credit(1, c)
    \/ \E sv \in FrameService : Dependents < MaxDependents /\ create_service(1, sv)
    \/ \E n \in DependentNotice : Dependents < MaxDependents /\ create_notification(1, n)
    \/ \E u \in Users, id \in {1} : delete_institution(u, id)
    \/ \E u \in Users, id \in {1, 2} : delete_product(u, id)

SpecDelete == Init /\ [][NextDelete]_vars

\* ----------------------------------------- specification: credit purchases
CreditProductIds == 1..(MaxCreditProducts + 1)

CreditProduct(u) ==
    [institution_id : {OwnInstitution(u)}, currency_id : {1},
     payment_due_day : {None, 0, 31}]

CreditCreate ==
    [product_id : CreditProductIds,
     purchase_date : {[y |-> 2023, m |-> 12, d |-> 31]},
     total_amount : {101},
     total_installments : 0..MaxInstallments,
     installment_amounts : {{}, {<<>>}, {<<30, 71>>}}]

NextCredits ==
    \/ \E u \in Users : \E p \in CreditProduct(u) :
          serial["products"] < MaxCreditProducts /\ create_product(u, p)
    \/ \E u \in Users, c \in CreditCreate : create_credit(u, c)

SpecCredits == Init /\ [][NextCredits]_vars

\* ------------------------------------ specification: concurrent postings
NextRace ==
    \/ \E u \in Users : \E p \in LedgerProduct(u) : create_product(u, p)
    \/ \E w \in Workers, u \in Users, t \in TransactionCreate :
          create_transaction_insert(w, u, t)
    \/ \E w \in Workers : update_product_balance_query(w)
    \/ \E w \in Workers : update_product_balance_commit(w)

SpecRace == Init /\ [][NextRace]_vars

\* ------------------------------------ specification: interrupted postings
CrashTransaction ==
    [product_id : {1}, type : TransactionType,
     transaction_date : {[y |-> 2024, m |-> 1, d |-> 31]}, amount : {100, 250}]

NextCrash ==
    \/ \E p \in FrameProduct : serial["products"] < 1 /\ create_product(1, p)
    \/ \E w \in Workers, t \in CrashTransaction : create_transaction_insert(w, 1, t)
    \/ \E w \in Workers : update_product_balance_query(w)
    \/ \E w \in Workers : update_product_balance_commit(w)
    \/ \E w \in Workers : create_transaction_stops(w)

SpecCrash == Init /\ [][NextCrash]_vars

\* --------------------------------------------- specification: currencies
Codes ==
    {<<"u", "s", "d">>, <<"U", "s", "d">>, <<"U", "S", "D">>,
     <<"e", "u", "r">>, <<"E", "U", "R">>, <<"a", "r", "s">>,
     <<"c", "l", "p">>, <<"u", "s", "d", "t">>}

CurrencyCreate == [code : Codes, name : {"money"}, symbol : {"$"}]

NextCurrencies ==
    \/ \E u \in Users, c \in CurrencyCreate : create_currency(u, c)
    \/ \E code \in Codes : read_currency_by_code(code)

SpecCurrencies == Init /\ [][NextCurrencies]_vars

\* --------------------------------------------- specification: categories
CategoryIds == 1..(MaxCategories + 1)

NextCategories ==
    \/ \E u \in Users : initialize_default_categories(u)
    \/ \E u \in Users, c \in CategoryCreate : create_category(u, c)
    \/ \E u \in Users, id \in CategoryIds : read_category(u, id)
    \/ \E u \in Users, id \in CategoryIds : delete_category(u, id)

SpecCategories == Init /\ [][NextCategories]_vars

\* ==================================================================== claims

\* C1: creating one transaction of amount A against a product of balance B
\* leaves the balance at B+A for INCOME and at B-A for EXPENSE, and stores
\* exactly one new transaction row, the posted one, for that product.
C1_TransactionAdjustsBalance ==
    [][\A u \in Users, t \in TransactionCreate :
          (create_transaction(u, t) /\ t.product_id \in DOMAIN products) =>
              /\ t.type = "INCOME" =>
                    products'[t.product_id].balance = products[t.product_id].balance + t.amount
              /\ t.type = "EXPENSE" =>
                    products'[t.product_id].balance = products[t.product_id].balance - t.amount
              /\ DOMAIN transactions \subseteq DOMAIN transactions'
              /\ \A i \in DOMAIN transactions : transactions'[i] = transactions[i]
              /\ Cardinality(DOMAIN transactions' \ DOMAIN transactions) = 1
              /\ \A i \in DOMAIN transactions' \ DOMAIN transactions : transactions'[i] = t
      ]_vars

C1_Witness ==
    /\ response.op = "create_transaction"
    /\ response.status = 200
    /\ \E p \in DOMAIN products, i, j \in DOMAIN transactions :
          /\ transactions[i] = [product_id |-> p, type |-> "INCOME",
                                transaction_date |-> [y |-> 2024, m |-> 1, d |-> 31],
                                amount |-> 100]
          /\ transactions[j] = [product_id |-> p, type |-> "EXPENSE",
                                transaction_date |-> [y |-> 2024, m |-> 1, d |-> 31],
                                amount |-> 250]
          /\ products[p].balance = 0 - 150

OwnedByOther(table, id, u) == id \in DOMAIN table /\ table[id].user_id # u

NotFoundReply == response'.status = 404 /\ response'.body = {}

KeepsRow(table, table2, id) == id \in DOMAIN table2 /\ table2[id] = table[id]

\* C2: for Institution, Product, Category, Service and Notification, a get,
\* update (service update, mark-notification-read) or delete request by user
\* A naming the id of a row of another user B is answered Not-Found, with
\* none of B's data, and leaves B's row as it was.
C2_ForeignRowsNotFound ==
    [][LET op == response'.op
           u == response'.user
           id == response'.target
       IN  /\ (op \in {"read_institution", "delete_institution"}
                 /\ OwnedByOther(institutions, id, u))
                 => (NotFoundReply /\ KeepsRow(institutions, institutions', id))
           /\ (op \in {"read_product", "delete_product"}
                 /\ OwnedByOther(products, id, u))
                 => (NotFoundReply /\ KeepsRow(products, products', id))
           /\ (op \in {"read_category", "delete_category"}
                 /\ OwnedByOther(categories, id, u))
                 => (NotFoundReply /\ KeepsRow(categories, categories', id))
           /\ (op \in {"read_service", "update_service", "delete_service"}
                 /\ OwnedByOther(services, id, u))
                 => (NotFoundReply /\ KeepsRow(services, services', id))
           /\ (op \in {"mark_notification_read", "delete_notification"}
                 /\ OwnedByOther(notifications, id, u))
                 => (NotFoundReply /\ KeepsRow(notifications, notifications', id))
      ]_vars

C2_Witness ==
    /\ response.op = "update_service"
    /\ response.status = 404
    /\ response.target \in DOMAIN services
    /\ services[response.target].user_id # response.user
    /\ services[response.target].name = "gym"

RowOwner(r) ==
    IF r.table = "installments"
    THEN products[credits[r.data.credit_id].product_id].user_id
    ELSE products[r.data.product_id].user_id

\* C3: the lists keyed by a parent id (transactions of a product, credits of
\* a product, installments of a credit) return only rows whose owning
\* product belongs to the caller.
C3_ListsOnlyOwnRows ==
    /\ response.op \in {"read_credits", "read_installments"}
          => \A r \in response.body : RowOwner(r) = response.user
    /\ response.op = "read_transactions"
          => \A k \in DOMAIN response.body : RowOwner(response.body[k]) = response.user

\* C4: a create-transaction or create-credit request by user A naming a
\* product of another user B leaves B's product as it was and adds no
\* transaction, credit or installment under it.
C4_ForeignProductUntouched ==
    [][(response'.op \in {"create_transaction", "create_credit"}
          /\ OwnedByOther(products, response'.target, response'.user))
          => /\ KeepsRow(products, products', response'.target)
             /\ transactions' = transactions
             /\ credits' = credits
             /\ installments' = installments
      ]_vars

\* C5: after any sequence of create-credit requests, completed or failed,
\* every stored credit has exactly total_installments installments, numbered
\* 1..total_installments with each number used once, all PENDING.
C5_CreditsHaveAllInstallments ==
    \A c \in DOMAIN credits :
        LET rows == get_installments(c)
        IN  /\ Cardinality(rows) = credits[c].total_installments
            /\ {installments[i].installment_number : i \in rows}
                  = 1..credits[c].total_installments
            /\ \A i \in rows : installments[i].status = PENDING

DueAsClaimed(i, day) ==
    LET row == installments[i]
        credit == credits[row.credit_id]
    IN  /\ row.due_date.d = day
        /\ MonthIndex(row.due_date) = MonthIndex(credit.purchase_date) + row.installment_number

ProductOf(i) == products[credits[installments[i].credit_id].product_id]

SuppliesAmounts(c) ==
    \E l \in c.installment_amounts : Len(l) = c.total_installments /\ Len(l) > 0

\* C7: with a list of exactly n amounts installment k gets the k-th amount;
\* in every other case (no list, empty list, other length) every
\* installment, the last included, gets total_amount / n.
C7_InstallmentAmounts ==
    [][\A u \in Users, c \in CreditCreate :
          create_credit(u, c) =>
              \A id \in DOMAIN installments' \ DOMAIN installments :
                  LET k == installments'[id].installment_number
                  IN  IF SuppliesAmounts(c)
                      THEN \A l \in c.installment_amounts : installments'[id].amount = l[k]
                      ELSE 2 * c.total_installments * installments'[id].amount
                              \in (2 * c.total_amount - c.total_installments + 1)
                                    ..(2 * c.total_amount + c.total_installments)
      ]_vars

C7_Witness ==
    /\ response.op = "create_credit"
    /\ response.status = 200
    /\ \E c \in DOMAIN credits :
          /\ credits[c].total_amount = 101
          /\ credits[c].total_installments = 2
          /\ Cardinality(get_installments(c)) = 2
          /\ \A i \in get_installments(c) : installments[i].amount = 51

Signed(t) == IF t.type = "INCOME" THEN t.amount ELSE 0 - t.amount

RECURSIVE SignedSum(_)
SignedSum(ids) ==
    IF ids = {} THEN 0
    ELSE LET i == CHOOSE x \in ids : TRUE
         IN  Signed(transactions[i]) + SignedSum(ids \ {i})

NoneInFlight == \A w \in Workers : workers[w].pc = "idle"

\* C8: two concurrent create-transaction requests on one product can end
\* with both rows stored and only one amount in the balance.  In every state
\* with no request in flight the balance of a product is the signed sum of
\* some of its stored transactions, not always of all of them: none if the
\* product has none, at least one otherwise.
C8_BalanceIsSumOfSomePostings ==
    NoneInFlight =>
        \A p \in DOMAIN products :
            \E posted \in SUBSET transactions_of_product(p) :
                /\ posted = {} => transactions_of_product(p) = {}
                /\ products[p].balance = SignedSum(posted)

C8_LostUpdate ==
    /\ NoneInFlight
    /\ \E p \in DOMAIN products, i, j \in DOMAIN transactions :
          /\ i # j
          /\ transactions_of_product(p) = {i, j}
          /\ transactions[i].amount = 100
          /\ transactions[j].amount = 250
          /\ transactions[i].type = "INCOME"
          /\ transactions[j].type = "INCOME"
          /\ products[p].balance = 100

UpperLetters == {"A", "C", "D", "E", "L", "P", "R", "S", "T", "U"}

IsUpperCase(code) == \A i \in DOMAIN code : code[i] \in UpperLetters

\* C9: a create-currency request whose upper-cased code is the code of a
\* stored currency is rejected with 400 and leaves the table as it was; so
\* no two stored currencies share a code and every stored code is upper-case.
C9_DuplicateCodeRejected ==
    /\ [][\A u \in Users, c \in CurrencyCreate :
             (create_currency(u, c)
                /\ \E i \in DOMAIN currencies : currencies[i].code = Upper(c.code))
             => (response'.status = 400 /\ currencies' = currencies)
         ]_vars
    /\ [](\A i, j \in DOMAIN currencies :
             /\ IsUpperCase(currencies[i].code)
             /\ currencies[i].code = currencies[j].code => i = j)

C9_Witness ==
    /\ response.op = "create_currency"
    /\ response.status = 400
    /\ \E i \in DOMAIN currencies : i > 1 /\ currencies[i].code = <<"E", "U", "R">>

\* C10: each run of the default-category initializer for user u adds exactly
\* 17 categories of u, 7 INCOME and 10 EXPENSE, whatever u already has (two
\* runs add 34 rows) and leaves every other category as it was.
C10_SeedingAddsSeventeen ==
    [][response'.op = "initialize_default_categories" =>
          LET added == DOMAIN categories' \ DOMAIN categories
          IN  /\ Cardinality(added) = 17
              /\ \A i \in added : categories'[i].user_id = response'.user
              /\ Cardinality({i \in added : categories'[i].type = "INCOME"}) = 7
              /\ Cardinality({i \in added : categories'[i].type = "EXPENSE"}) = 10
              /\ \A i \in DOMAIN categories : KeepsRow(categories, categories', i)
      ]_vars

C10_Witness ==
    /\ response.op = "initialize_default_categories"
    /\ \E u \in Users :
          /\ Cardinality({i \in DOMAIN categories : categories[i].user_id = u}) = 34
          /\ Cardinality({i \in DOMAIN categories :
                             categories[i].user_id = u /\ categories[i].name = "Sueldo"}) = 2

\* C11: a page of a product's N transactions requested with skip s and limit
\* l holds exactly min(l, max(0, N - s)) rows in non-increasing
\* transaction_date order, and a page requested right after the previous one
\* (same product, same limit, skip advanced by the limit, nothing written in
\* between) repeats no row of it, also when rows share a date.
C11_PagesPartitionTransactions ==
    [][response'.op = "read_transactions"
          => LET page == response'.body
                 N == Cardinality(transactions_of_product(response'.target))
             IN  /\ Len(page) = Min(response'.limit, Max(0, N - response'.skip))
                 /\ \A i, j \in DOMAIN page :
                       i < j => ~DateBefore(page[i].data.transaction_date,
                                            page[j].data.transaction_date)
                 /\ (/\ response.op = "read_transactions"
                     /\ response.target = response'.target
                     /\ response.limit = response'.limit
                     /\ response'.skip = response.skip + response.limit)
                       => \A i \in DOMAIN response.body, j \in DOMAIN page :
                             response.body[i].id # page[j].id
      ]_vars

\* C11, the part that holds of every page on its own: the row count and the
\* order by date
C11_PageCountAndOrder ==
    [][response'.op = "read_transactions"
          => LET page == response'.body
                 N == Cardinality(transactions_of_product(response'.target))
             IN  /\ Len(page) = Min(response'.limit, Max(0, N - response'.skip))
                 /\ \A i, j \in DOMAIN page :
                       i < j => ~DateBefore(page[i].data.transaction_date,
                                            page[j].data.transaction_date)
      ]_vars
RECURSIVE DaysBeforeMonth(_, _)
DaysBeforeMonth(y, m) ==
    IF m = 1 THEN 0 ELSE DaysBeforeMonth(y, m - 1) + DaysInMonth(y, m - 1)

\* the number of the day, counted from 2000-01-01 as day 1
DayNumber(date) ==
    365 * (date.y - 2000) + Cardinality({k \in 2000..(date.y - 1) : IsLeap(k)})
        + DaysBeforeMonth(date.y, date.m) + date.d

\* C12: the upcoming-services list of user u with horizon N holds each
\* service owned by u that is active and due on a day d with
\* today <= d <= today + N exactly once, and no other service, in
\* non-decreasing order of due date.  (A step that changes the day is the
\* calendar's, not a request.)
C12_UpcomingServices ==
    [][(response'.op = "read_upcoming_services" /\ today' = today)
          => LET list == response'.body
                 N == response'.days_ahead
                 due(i) == DayNumber(services[i].next_due_date)
             IN  /\ {list[k].id : k \in DOMAIN list}
                       = {i \in DOMAIN services :
                             /\ services[i].user_id = response'.user
                             /\ services[i].is_active
                             /\ DayNumber(today) <= due(i)
                             /\ due(i) <= DayNumber(today) + N}
                 /\ \A j, k \in DOMAIN list : j # k => list[j].id # list[k].id
                 /\ \A j, k \in DOMAIN list : j < k => due(list[j].id) <= due(list[k].id)
      ]_vars

\* after a midnight, the default horizon lists one service of the caller and
\* leaves out another of the caller's that is inactive or already past due
C12_Witness ==
    /\ response.op = "read_upcoming_services"
    /\ response.days_ahead = DefaultDaysAhead
    /\ Len(response.body) = 1
    /\ \E i \in DOMAIN services :
          /\ services[i].user_id = response.user
          /\ i # response.body[1].id
          /\ (~services[i].is_active \/ DateBefore(services[i].next_due_date, today))
    /\ today # FirstDay
\* the entries of a batch whose product exists and is owned by the user
AcceptedEntries(data, u) ==
    SelectSeq(data, LAMBDA e : /\ e.product_id \in DOMAIN products
                               /\ products[e.product_id].user_id = u)

\* income minus expense of the first n of the entries that name product p
RECURSIVE NetOf(_, _, _)
NetOf(entries, p, n) ==
    IF n = 0 THEN 0
    ELSE NetOf(entries, p, n - 1)
            + (IF entries[n].product_id = p THEN Signed(entries[n]) ELSE 0)

\* C13: bulk creation for user u stores exactly the proposed entries whose
\* product u owns, in their order, changes each product's balance by the net
\* of its accepted entries (plus for INCOME, minus for EXPENSE) and no other
\* balance, and returns the stored rows without an error; entries naming a
\* product u does not own add no row and change no balance.
C13_BulkCreatesOwnedEntries ==
    [][response'.op = "bulk_create_transactions"
          => LET kept == AcceptedEntries(response'.data, response'.user)
                 first_id == serial["transactions"] + 1
             IN  /\ response'.status = 200
                 /\ DOMAIN transactions'
                       = DOMAIN transactions \cup (first_id..(first_id + Len(kept) - 1))
                 /\ \A i \in DOMAIN transactions : transactions'[i] = transactions[i]
                 /\ \A k \in DOMAIN kept : transactions'[first_id + k - 1] = kept[k]
                 /\ Len(response'.body) = Len(kept)
                 /\ \A k \in DOMAIN kept :
                       /\ response'.body[k].id = first_id + k - 1
                       /\ response'.body[k].data = kept[k]
                 /\ DOMAIN products' = DOMAIN products
                 /\ \A p \in DOMAIN products :
                       products'[p] = [products[p] EXCEPT !.balance =
                                          @ + NetOf(kept, p, Len(kept))]
      ]_vars

\* a batch of two or more entries, one on a product of the caller and one on
\* a product of the other user, has been answered with the shorter list
C13_Witness ==
    /\ response.op = "bulk_create_transactions"
    /\ Len(response.data) >= 2
    /\ Len(response.body) = 1
    /\ \E k \in DOMAIN response.data :
          /\ response.data[k].product_id \in DOMAIN products
          /\ products[response.data[k].product_id].user_id # response.user
\* the installment is reached from user u through its credit and the
\* credit's product
InstallmentOf(i, u) ==
    products[credits[installments[i].credit_id].product_id].user_id = u

Unread(table, u) == {i \in DOMAIN table : table[i].user_id = u /\ ~table[i].is_read}

\* C15: mark-all-as-read for user u returns the number of u's notifications
\* unread just before the call and leaves u with none unread and every other
\* user's rows as they were; the unread count requested right after it is 0,
\* and a mark-all repeated right after it returns 0.
C15_MarkAllRead ==
    [][/\ response'.op = "mark_all_notifications_read"
          => /\ response'.body = Cardinality(Unread(notifications, response'.user))
             /\ Unread(notifications', response'.user) = {}
             /\ DOMAIN notifications' = DOMAIN notifications
             /\ \A i \in DOMAIN notifications :
                   notifications[i].user_id # response'.user
                       => notifications'[i] = notifications[i]
             /\ \A i \in DOMAIN notifications :
                   notifications'[i] = [notifications[i] EXCEPT !.is_read = TRUE]
                       \/ notifications'[i] = notifications[i]
       /\ (/\ response.op = "mark_all_notifications_read"
           /\ response'.op \in {"mark_all_notifications_read", "get_unread_count"}
           /\ response'.user = response.user)
          => response'.body = 0
      ]_vars

\* a mark-all that found an unread row of the caller has been answered
\* while a row of the other user is still unread
C15_Witness ==
    /\ response.op = "mark_all_notifications_read"
    /\ response.body = 1
    /\ \E i \in DOMAIN notifications :
          notifications[i].user_id # response.user /\ ~notifications[i].is_read

C17_LoadWithinThirtyMinutes ==
    [][/\ outcome'.op = "load_session"
          => /\ outcome'.value.kind = "session"
                   <=> (session_file.kind = "session" /\ now <= session_file.expires_at)
             /\ outcome'.value.kind = "session"
                   => outcome'.value = session_file /\ session_file' = session_file
             /\ (\/ session_file.kind = "unreadable"
                 \/ session_file.kind = "session" /\ now > session_file.expires_at)
                   => outcome'.value = NoFile /\ session_file' = NoFile
       /\ (session_file'.kind = "session" /\ session_file' # session_file)
          => /\ outcome'.op \in {"save_session", "extend_session"}
             /\ session_file'.expires_at = now + 30
      ]_vars

\* a load at the last minute of a session has returned it
C17_Witness ==
    /\ outcome.op = "load_session"
    /\ outcome.value.kind = "session"
    /\ outcome.value.created_at > 0
    /\ outcome.at = outcome.value.created_at + 30

\* a load after the last minute of a session has reported none and removed
\* the file
C17_WitnessExpired ==
    /\ outcome.op = "load_session"
    /\ outcome.value = NoFile
    /\ session_file = NoFile
    /\ now > 30
\* the restoration marks the session logged in only with the token and user
\* of a persisted session whose token the backend accepts
C18_RestoredOnlyIfAccepted ==
    [][(outcome'.op = "init_persistent_session"
            /\ ~session_state.logged_in /\ session_state'.logged_in)
          => /\ session_file.kind = "session"
             /\ session_file.token \in accepted
             /\ session_state'.token = session_file.token
             /\ session_state'.user = session_file.user
      ]_vars

\* C18: restoration at initialization marks the local session logged in,
\* with the token and user of the persisted session, only if the backend's
\* current-user endpoint accepted the token stored in that session; when
\* the token is rejected or the call fails, the local state stays logged out
\* and the session file is removed.
C18_RestoreOrRemove ==
    [][outcome'.op = "init_persistent_session"
          => /\ (~session_state.logged_in /\ session_state'.logged_in)
                   => /\ session_file.kind = "session"
                      /\ session_file.token \in accepted
                      /\ session_state'.token = session_file.token
                      /\ session_state'.user = session_file.user
             /\ outcome'.value \in {"rejected", "failed"}
                   => ~session_state'.logged_in /\ session_file' = NoFile
      ]_vars

\* C19: logout leaves token = None, user = None, logged_in = False and no
\* session file; from a state with no session file and no authenticated
\* session, every step but a successful login leads to such a state again,
\* so every later initialization leaves the session unauthenticated until a
\* new login succeeds.
C19_LoggedOutUntilLogin ==
    [][/\ outcome'.op = "logout"
          => session_state' = LoggedOut /\ session_file' = NoFile
       /\ (/\ session_file = NoFile
           /\ ~is_authenticated(session_state)
           /\ ~(outcome'.op = "login" /\ outcome'.value = 200))
          => session_file' = NoFile /\ ~is_authenticated(session_state')
      ]_vars

\* after a logout and a reload of the page, while the backend still accepts
\* the token the client holds, the run has rendered the login form
C19_Witness ==
    /\ outcome.op = "init_persistent_session"
    /\ view = "login"
    /\ session_file = NoFile
    /\ authorization \in accepted
    /\ now = 0

\* C20: after an API call answered 401 the session is logged out, token =
\* None, user = None and logged_in = False, and the next run renders the
\* login view.
C20_LoggedOutAfter401 ==
    [][/\ (outcome'.op = "api_call" /\ outcome'.value = 401)
          => session_state' = LoggedOut
       /\ (/\ outcome.op = "api_call" /\ outcome.value = 401
           /\ outcome'.op = "init_persistent_session")
          => view' = "login"
      ]_vars

\* after an API call answered 401 the next run renders the login view
C20_LoginViewAfter401 ==
    [][(/\ outcome.op = "api_call" /\ outcome.value = 401
        /\ outcome'.op = "init_persistent_session")
          => view' = "login"
      ]_vars

\* C21: every HTTP call the API client sends for the session carries as
\* bearer token exactly the token the session state holds, and none when the
\* state holds none: the calls of the main view and the login request go out
\* with the header the client has, the current-user request of a restoration
\* with the header _setup_auth leaves.
C21_BearerIsSessionToken ==
    [][/\ outcome'.op \in {"api_call", "login"}
          => authorization = session_state.token
       /\ (outcome'.op = "init_persistent_session" /\ outcome'.value # "none")
          => authorization' = session_state.token
      ]_vars

\* C22: on the first render of a fresh session the current page becomes the
\* page identifier the page-state file holds; it is dashboard only when the
\* file is missing or unreadable.
C22_ResumesLastPage ==
    [][(outcome'.op = "main_navigation" /\ current_page = NoPage)
          => current_page' = IF page_file.kind = "page" THEN page_file.current_page
                             ELSE "dashboard"
      ]_vars

\* the first render of a session opens the dashboard and writes it to the
\* page-state file, whatever the file held
C22_FirstRenderIsDashboard ==
    [][(outcome'.op = "main_navigation" /\ current_page = NoPage)
          => current_page' = "dashboard" /\ page_file' = save_page_state("dashboard")
      ]_vars

\* C23: the duplicate heuristic is advisory: the form of a run has its
\* submit button enabled exactly when the required fields are present and
\* the amount is valid, whether or not the run flagged the values as a likely
\* duplicate.
C23_DuplicateIsAdvisory ==
    [][outcome'.op = "transaction_form"
          => (outcome'.value.can_submit
                <=> (/\ outcome'.value.category # <<>>
                     /\ outcome'.value.amount >= MinAmount))
      ]_vars

\* the submit button is enabled exactly when the required fields are
\* present, the amount is valid and the run flagged no likely duplicate
C23_DuplicateDisablesSubmit ==
    [][outcome'.op = "transaction_form"
          => (outcome'.value.can_submit
                <=> (/\ outcome'.value.category # <<>>
                     /\ outcome'.value.amount >= MinAmount
                     /\ ~outcome'.value.duplicate))
      ]_vars

\* the requests the spec says leave every balance and every transaction as
\* they are
BalanceFrameOps ==
    {"create_credit", "bulk_update_installment_status", "create_service",
     "update_service", "delete_service", "create_notification",
     "create_service_due_notification", "mark_notification_read",
     "mark_all_notifications_read", "delete_notification", "create_category",
     "delete_category", "initialize_default_categories"}

\* C24: the balance of a product changes only in the creation of one
\* transaction or of a batch of them: creating a credit with its
\* installments, setting installments PAID or PENDING, creating, updating or
\* deleting a service and every notification or category request leave the
\* products and their balances as they were and create no transaction row.
C24_BalanceChangesOnlyInPosting ==
    [][/\ response'.op \in BalanceFrameOps
          => products' = products /\ transactions' = transactions
       /\ (\E i \in DOMAIN products \cap DOMAIN products' :
              products'[i].balance # products[i].balance)
          => response'.op \in {"create_transaction", "bulk_create_transactions"}
      ]_vars

\* an installment of a credit on a product with a posted income has been
\* set PAID, with the balance and the one transaction row as they were
C24_Witness ==
    /\ response.op = "bulk_update_installment_status"
    /\ response.body = 1
    /\ \E i \in DOMAIN installments : installments[i].status = PAID
    /\ \E p \in DOMAIN products : products[p].balance = 100
    /\ Cardinality(DOMAIN transactions) = 1

Stored(t) == \E i \in DOMAIN transactions : transactions[i] = t

\* C25: a transaction is created by two committed writes, the row first and
\* the balance second.  A request that stops between them leaves its row
\* stored and every balance as it was; a balance is only ever changed for a
\* request whose row is already stored, so in every state the balance of a
\* product is the signed sum of some of its stored rows.
C25_RowBeforeBalance ==
    /\ [](/\ \A w \in Workers : workers[w].pc # "idle" => Stored(workers[w].t)
          /\ \A p \in DOMAIN products :
                \E posted \in SUBSET transactions_of_product(p) :
                    products[p].balance = SignedSum(posted))
    /\ [][/\ \A w \in Workers :
                (/\ workers[w].pc \in {"inserted", "queried"}
                 /\ workers'[w].pc = "idle"
                 /\ response'.status = 500)
                => /\ \E i \in DOMAIN transactions' : transactions'[i] = workers[w].t
                   /\ products' = products
          /\ products' # products /\ DOMAIN products' = DOMAIN products
                => \E w \in Workers :
                      /\ workers[w].pc = "queried"
                      /\ Stored(workers[w].t)
                      /\ \A p \in DOMAIN products :
                            p # workers[w].t.product_id => products'[p] = products[p]
         ]_vars

\* a request has stopped after its first write: its row, an income of 100,
\* is the only row of the product and the balance is still 0
C25_Witness ==
    /\ response.op = "create_transaction"
    /\ response.status = 500
    /\ NoneInFlight
    /\ \E p \in DOMAIN products :
          /\ products[p].balance = 0
          /\ \E i \in DOMAIN transactions :
                /\ transactions_of_product(p) = {i}
                /\ transactions[i].type = "INCOME"
                /\ transactions[i].amount = 100

\* C26: extend, for a session file that exists, parses and has not expired,
\* returns success, sets expires_at to now + 30 minutes and leaves token,
\* user, created_at and session_id as they were; for a missing, unreadable or
\* expired file it returns failure and no session file exists afterwards.
C26_ExtendValidSessionOnly ==
    [][outcome'.op = "extend_session"
          => IF session_file.kind = "session" /\ now <= session_file.expires_at
             THEN /\ outcome'.value = TRUE
                  /\ session_file'.kind = "session"
                  /\ session_file'.expires_at = now + 30
                  /\ session_file'.token = session_file.token
                  /\ session_file'.user = session_file.user
                  /\ session_file'.created_at = session_file.created_at
                  /\ session_file'.session_id = session_file.session_id
             ELSE /\ outcome'.value = FALSE
                  /\ session_file' = NoFile
      ]_vars

\* a session saved earlier has been extended at a later time
C26_Witness ==
    /\ outcome.op = "extend_session"
    /\ outcome.value = TRUE
    /\ session_file.kind = "session"
    /\ session_file.created_at < outcome.at
    /\ session_file.expires_at = outcome.at + 30

Files == {OwnSession} \cup OtherSessions

\* C27: after a cleanup sweep no expired and no unparseable session file is
\* left in the directory, and every session file that parsed and had not
\* expired, whichever session wrote it, is there with its content unchanged.
C27_SweepRemovesExpiredOnly ==
    [][outcome'.op = "cleanup_old_sessions"
          => \A f \in Files :
                LET before == IF f = OwnSession THEN session_file ELSE session_dir[f]
                    after == IF f = OwnSession THEN session_file' ELSE session_dir'[f]
                IN  IF before.kind = "session" /\ now <= before.expires_at
                    THEN after = before
                    ELSE after.kind = "none"
      ]_vars

\* a sweep has removed an expired file and an unreadable one and has kept a
\* session of another process that had not expired
C27_Witness ==
    /\ outcome.op = "cleanup_old_sessions"
    /\ session_file.kind = "none"
    /\ \E f, g \in OtherSessions :
          /\ session_dir[f].kind = "session"
          /\ session_dir[f].created_at > 30
          /\ session_dir[g].kind = "none"

\* C28: the pagination state of a key is held in the session state across
\* reruns: when the state is created again, the current page and the page
\* size are the ones the run before left, whether a button, the jump selector
\* or the size selector set them; and the current page goes back to 1 only
\* in a run that changes the page size.
C28_PaginationHeldAcrossReruns ==
    [][outcome'.op = "render_transactions_paginated"
          => /\ pagination.page # None
                => /\ outcome'.value.page = pagination.page
                   /\ outcome'.value.items_per_page = pagination.items_per_page
             /\ (pagination.page # None /\ pagination.page # 1 /\ pagination'.page = 1)
                => pagination'.items_per_page # pagination.items_per_page
      ]_vars

\* what the code does instead: every creation of the state starts from
\* page 1 and the default page size
C28_CreationResets ==
    [][outcome'.op = "render_transactions_paginated"
          => /\ outcome'.value.page = 1
             /\ outcome'.value.items_per_page = DefaultItemsPerPage
      ]_vars

\* C29: deleting an institution of the caller succeeds and removes only
\* the institution row, its products staying as they were; deleting a product
\* of the caller succeeds and removes only the product row, its transactions,
\* credits, installments and services staying as they were.
C29_DeleteLeavesDependents ==
    [][/\ (/\ response'.op = "delete_institution"
            /\ get_institution(response'.target, response'.user) # {})
          => /\ response'.status = 200
             /\ institutions' = Remove(institutions, response'.target)
             /\ products' = products
       /\ (/\ response'.op = "delete_product"
            /\ get_product(response'.target, response'.user) # {})
          => /\ response'.status = 200
             /\ products' = Remove(products, response'.target)
             /\ UNCHANGED <<transactions, credits, installments, services>>
      ]_vars

\* what the code does instead: a delete that succeeds had no row with a
\* NOT NULL reference to the deleted row, and a product's delete clears the
\* product_id of its services
C29_DeleteOnlyWithoutDependents ==
    [][/\ (response'.op = "delete_institution" /\ response'.status = 200)
          => InstitutionDependents(response'.target) = {}
       /\ (response'.op = "delete_product" /\ response'.status = 200)
          => /\ ~ProductDependents(response'.target)
             /\ \A i \in DOMAIN services' : services'[i].product_id # response'.target
      ]_vars

\* C30: however a save or an extend of the session file and a cleanup sweep
\* of another browser session interleave, a session that was saved, has not
\* expired and was not cleared by its owner is not deleted: a finished save
\* or extend leaves the file holding the session, and from then on only the
\* owner's next save, extend or clear changes the file while the session
\* has not expired, so a load by the owner returns it.
C30_SavedSessionSurvivesSweep ==
    [][/\ outcome'.op \in {"save_session", "extend_session"} /\ outcome'.value = TRUE
          => session_file'.kind = "session"
       /\ (/\ session_file.kind = "session"
           /\ now <= session_file.expires_at
           /\ session_file' # session_file)
          => outcome'.op \in {"open", "clear_session"}
      ]_vars
====
